---------------------------- MODULE Spec2Model ----------------------------
(***************************************************************************)
(* OpenTouch-Remote: the server's session lifecycle (server.py), the       *)
(* capture thread (capture_engine.py), the frame hand-off onto the asyncio *)
(* event loop, the input state machine (input_handler.py) and the latency  *)
(* driven quality controller (server.py).                                  *)
(*                                                                         *)
(* The specifications share the variables:                                 *)
(*   Spec           server + capture threads + event loop                  *)
(*   SpecInput      InputHandler alone, driven with every event of         *)
(*                  InputEvents and with release_all                       *)
(*   SpecPointer    set_desktop_size and moves: _transform_coordinates     *)
(*   SpecCapture    one _capture_loop and its change detection             *)
(*   SpecEngine     start() and stop() called from two threads, with       *)
(*                  self.lock                                              *)
(*   SpecStop       start(), stop() and the capture threads, with weak     *)
(*                  fairness on the threads' steps                         *)
(*   SpecQuality    QualityController alone, for every base quality of     *)
(*                  ArgQualities and every latency sequence over Latencies *)
(*   SpecQualityRun QualityController over runs that fill the window       *)
(*   SpecWindow     the same runs with the log of the samples              *)
(*   SpecFail       the capture threads with iterations that fail          *)
(*   SpecBroadcast  the Broadcaster with emits that raise                  *)
(*   SpecSetQuality CaptureEngine.set_quality called directly              *)
(*   SpecEncode     the pong handler against the capture thread's encodes  *)
(*   SpecRate       process_event with the clock of _rate_limit            *)
(*   SpecDesktop    connects and disconnects, counting set_desktop_size    *)
(*   SpecPair       set_desktop_size against _transform_coordinates,       *)
(*                  statement by statement, with InputHandler.lock         *)
(*   SpecSession    the five handlers of the server over two sessions      *)
(*   SpecTaps       InputHandler with click and keypress                   *)
(*   SpecInputs     the input handler of the server, whole, over two       *)
(*                  sessions with their viewports                          *)
(*   SpecProbe      connect and the pong handler with the clock            *)
(*   SpecStats      one _capture_loop with self.stats                      *)
(***************************************************************************)
EXTENDS Integers, Sequences, FiniteSets, TLC

\* ------------------------------------------------------------------ bounds
\* capture threads alive at once
MaxThreads == 2
\* frames ever handed to the frame callback
MaxFrames == 3
\* record_latency calls
MaxCalls == 4
\* record_latency calls of a long run
MaxRunCalls == 11
\* failed iterations of the capture loops
MaxFailures == 2
\* the last millisecond of the clock
MaxTime == 24
\* set_desktop_size calls made by connect
MaxSizeSets == 2
\* frames pulled by the capture loop whose statistics are counted
MaxCaptured == 6

\* session ids
Sids == {"s1", "s2"}

VARIABLES
    \* OpenTouchServer
    connected_clients,   \* key set of self.connected_clients
    client_resolutions,  \* self.client_resolutions: sid -> viewport
    latency_tracker,     \* key set of self.latency_tracker
    loop,                \* self.loop is not None
    is_broadcasting,     \* the "currently sending" flag
    \* CaptureEngine
    running,             \* self.running
    camera,              \* self.camera: "None" or "DXCamera"
    frame_callback,      \* self.frame_callback is not None
    threads,             \* the live capture threads: how many at each position
    \* asyncio event loop
    ready,               \* scheduled _broadcast_frame coroutines, FIFO
    emitting,            \* coroutines suspended in `await self.sio.emit`
    \* history of the frame path
    nextFrame,           \* frames handed to frame_callback so far
    busyAt,              \* frames whose callback read is_broadcasting = True
    lastDelivery,        \* the last run of _broadcast_frame up to its await
    lastEmitted,         \* the frame of the last 'frame' emit begun
    lastConn,            \* what the last connect/disconnect handler did
    \* InputHandler
    button_state,        \* self.button_state (a dict: its domain grows)
    key_state,           \* self.key_state
    held,                \* the injection sink: native button/key held down
    last,                \* what the last InputHandler operation forwarded
    desktop_size,        \* <<self.desktop_width, self.desktop_height>>
    position,            \* mouse_controller.position
    moved,               \* the arguments of the last _handle_move
    \* one _capture_loop and its change detection
    last_frame,          \* self.last_frame: NoFrame or the last frame sent
    consecutive_identical, \* the loop's local counter
    skipped_run,         \* non-empty frames skipped in a row by this loop
    lastTick,            \* what the last iteration of the loop did
    \* callers of CaptureEngine.start and stop, and self.lock
    lock,                \* "free" or the caller inside `with self.lock`
    caller,              \* where each caller is in its call
    created,             \* capture threads created since the last stop()
    callback_owner,      \* the caller whose start() registered the callback
    start_result,        \* how each caller's last start() ended
    \* history of the last stop()
    stopped,             \* stop() has returned and no start() was called since
    framesAtStop,        \* nextFrame when it returned
    inFlightAtStop,      \* iterations in flight when it returned
    \* history of the failed iterations of the capture loops
    failures,            \* iterations that failed so far
    lastFail,            \* what failed last, and whether the thread slept
    \* history of the emits of _broadcast_frame that raised
    emit_failed,         \* the frames whose emit raised
    propagated,          \* the frames whose coroutine ended with the exception
    failedAt,            \* nextFrame when the last emit raised
    \* CaptureEngine's JPEG quality and the pong handler that updates it
    current_jpeg_quality, \* self.current_jpeg_quality, 0..100
    lastSet,             \* the argument of the last set_quality call
    pong,                \* where the pong handler is
    lastEncode,          \* the quality of the last encode and the
                         \* controller's quality at that moment
    \* history of record_latency
    fed,                 \* every sample passed to record_latency, in order
    \* the rate limiter of InputHandler, times in milliseconds
    now,                 \* time.time()
    last_action_time,    \* self.last_action_time
    stamps,              \* the last two values written to last_action_time
    dispatchAt,          \* when the last event's dispatch began
    \* history of set_desktop_size
    size_sets,           \* set_desktop_size calls so far
    size_set_by,         \* the session whose connect made the last call
    \* set_desktop_size and _transform_coordinates step by step
    input_lock,          \* InputHandler.lock: "free" or its holder
    writer,              \* where the set_desktop_size call is
    pending,             \* its arguments
    size_before,         \* the desktop size when it was called
    reader,              \* where the _transform_coordinates call is
    reads,               \* the widths and heights it has read
    \* history of the input handler of the server
    pressed_by,          \* the session whose event pressed each native
    lastInput,           \* the last input event and what became of it
    \* the latency probes, times in milliseconds
    last_ping,           \* latency_tracker[sid]["last_ping"]
    lastSample,          \* the last pong and the sample recorded for it
    \* self.stats of the CaptureEngine
    frames_captured,
    frames_sent,
    frames_skipped,
    \* QualityController (qualities in hundredths)
    base_quality,
    current_quality,
    latency_samples,
    previous_quality,    \* current_quality before the last record_latency
    calls                \* record_latency calls so far

serverVars == <<connected_clients, client_resolutions, latency_tracker, loop,
                is_broadcasting, lastConn>>
engineVars == <<running, camera, frame_callback, threads>>
loopVars == <<ready, emitting, lastDelivery, lastEmitted>>
frameVars == <<nextFrame, busyAt>>
inputVars == <<button_state, key_state, held, last>>
pointerVars == <<desktop_size, position, moved>>
captureVars == <<last_frame, consecutive_identical, skipped_run, lastTick>>
callVars == <<lock, caller, created, callback_owner, start_result>>
stopVars == <<stopped, framesAtStop, inFlightAtStop>>
failVars == <<failures, lastFail>>
emitVars == <<emit_failed, propagated, failedAt>>
jpegVars == <<current_jpeg_quality, lastSet, pong, lastEncode>>
windowVars == <<fed>>
rateVars == <<now, last_action_time, stamps, dispatchAt>>
sizeVars == <<size_sets, size_set_by>>
pairVars == <<input_lock, writer, pending, size_before, reader, reads>>
sessVars == <<pressed_by, lastInput>>
pingVars == <<last_ping, lastSample>>
statVars == <<frames_captured, frames_sent, frames_skipped>>
lateVars == <<sessVars, pingVars, statVars>>
unpingedVars == <<captureVars, callVars, stopVars, failVars, emitVars,
                  jpegVars, windowVars, rateVars, sizeVars, pairVars,
                  sessVars, lastSample, statVars>>
auxVars == <<captureVars, callVars, stopVars, failVars, emitVars, jpegVars,
             windowVars, rateVars, sizeVars, pairVars, lateVars>>
qualityVars == <<base_quality, current_quality, latency_samples,
                 previous_quality, calls>>
vars == <<serverVars, engineVars, loopVars, frameVars, inputVars, pointerVars,
          qualityVars, auxVars>>

Range(s) == {s[i] : i \in 1..Len(s)}
Min(a, b) == IF a < b THEN a ELSE b
Max(a, b) == IF a > b THEN a ELSE b
Abs(a) == IF a < 0 THEN -a ELSE a


\* ------------------------------------------------------------ InputHandler
\* button names and key names the clients send
ButtonNames == {"left", "foo"}
KeyNames == {"Enter", "enter", "a", "F13", ""}

\* dict.get(k, False) and d[k] = v
Get(d, k) == IF k \in DOMAIN d THEN d[k] ELSE FALSE
Put(d, k, v) == [x \in DOMAIN d \cup {k} |-> IF x = k THEN v ELSE d[x]]

\* _get_button: buttons.get(name, mouse.Button.left)
get_button(name) ==
    CASE name = "left" -> "Button.left"
      [] name = "right" -> "Button.right"
      [] name = "middle" -> "Button.middle"
      [] OTHER -> "Button.left"

\* the special_keys table of _parse_key
special_keys ==
    ("enter" :> "Key.enter") @@ ("tab" :> "Key.tab") @@
    ("escape" :> "Key.esc") @@ ("esc" :> "Key.esc") @@
    ("backspace" :> "Key.backspace") @@ ("delete" :> "Key.delete") @@
    ("space" :> "Key.space") @@
    ("arrow_up" :> "Key.up") @@ ("arrow_down" :> "Key.down") @@
    ("arrow_left" :> "Key.left") @@ ("arrow_right" :> "Key.right") @@
    ("up" :> "Key.up") @@ ("down" :> "Key.down") @@
    ("left" :> "Key.left") @@ ("right" :> "Key.right") @@
    ("home" :> "Key.home") @@ ("end" :> "Key.end") @@
    ("page_up" :> "Key.page_up") @@ ("page_down" :> "Key.page_down") @@
    ("insert" :> "Key.insert") @@
    ("shift" :> "Key.shift") @@ ("shift_l" :> "Key.shift_l") @@
    ("shift_r" :> "Key.shift_r") @@
    ("ctrl" :> "Key.ctrl") @@ ("ctrl_l" :> "Key.ctrl_l") @@
    ("ctrl_r" :> "Key.ctrl_r") @@
    ("alt" :> "Key.alt") @@ ("alt_l" :> "Key.alt_l") @@
    ("alt_r" :> "Key.alt_r") @@
    ("cmd" :> "Key.cmd") @@ ("cmd_l" :> "Key.cmd_l") @@
    ("cmd_r" :> "Key.cmd_r") @@ ("win" :> "Key.cmd") @@
    ("caps_lock" :> "Key.caps_lock") @@
    ("f1" :> "Key.f1") @@ ("f2" :> "Key.f2") @@ ("f3" :> "Key.f3") @@
    ("f4" :> "Key.f4") @@ ("f5" :> "Key.f5") @@ ("f6" :> "Key.f6") @@
    ("f7" :> "Key.f7") @@ ("f8" :> "Key.f8") @@ ("f9" :> "Key.f9") @@
    ("f10" :> "Key.f10") @@ ("f11" :> "Key.f11") @@ ("f12" :> "Key.f12")

\* key.lower().replace(" ", "_") on the key names of the model
key_lower(key) ==
    CASE key = "Enter" -> "enter"
      [] key = "A" -> "a"
      [] key = "F13" -> "f13"
      [] OTHER -> key

\* len(key) == 1 and KeyCode.from_char(key)
SingleChars == {"a", "A"}
from_char(key) == IF key = "a" THEN "KeyCode.a" ELSE "KeyCode.A"

\* _parse_key: the native key, or "None"
parse_key_lenient(key) ==
    IF key_lower(key) \in DOMAIN special_keys THEN special_keys[key_lower(key)]
    ELSE from_char(key)

parse_key(key) ==
    IF key_lower(key) \in DOMAIN special_keys THEN special_keys[key_lower(key)]
    ELSE IF key \in SingleChars THEN from_char(key)
    ELSE "None"

\* the native buttons and keys the model's names reach at the injection sink
Natives ==
    {get_button(b) : b \in ButtonNames \cup {"left", "right", "middle"}}
        \cup ({parse_key(k) : k \in KeyNames} \ {"None"})

NoOp == [op |-> "none", name |-> "", was |-> FALSE, press |-> 0, relB |-> 0,
         relK |-> 0, nB |-> 0, nK |-> 0, dup |-> FALSE, ghost |-> FALSE]

\* `if not self.button_state.get(button_name, False)` of _handle_mousedown
mousedown_gate_open(was) == TRUE
mousedown_gate(was) == ~was

\* `if self.button_state.get(button_name, False)` of _handle_mouseup
mouseup_gate(was) == was

\* `if key_obj and not self.key_state.get(key, False)` of _handle_keydown
keydown_gate(key_obj, was) == key_obj # "None" /\ ~was

\* `if key_obj and self.key_state.get(key, False)` of _handle_keyup
keyup_gate(key_obj, was) == key_obj # "None" /\ was

handle_mousedown(name) ==
    LET button == get_button(name)
        was == Get(button_state, name)
    IN  /\ IF mousedown_gate(was)
           THEN /\ held' = [held EXCEPT ![button] = TRUE]
                /\ button_state' = Put(button_state, name, TRUE)
                /\ last' = [NoOp EXCEPT !.op = "mousedown", !.name = name,
                                        !.was = was, !.press = 1,
                                        !.dup = held[button]]
           ELSE /\ UNCHANGED <<held, button_state>>
                /\ last' = [NoOp EXCEPT !.op = "mousedown", !.name = name,
                                        !.was = was]
        /\ UNCHANGED key_state

handle_mouseup(name) ==
    LET button == get_button(name)
        was == Get(button_state, name)
    IN  /\ IF mouseup_gate(was)
           THEN /\ held' = [held EXCEPT ![button] = FALSE]
                /\ button_state' = Put(button_state, name, FALSE)
                /\ last' = [NoOp EXCEPT !.op = "mouseup", !.name = name,
                                        !.was = was, !.relB = 1,
                                        !.ghost = ~held[button]]
           ELSE /\ UNCHANGED <<held, button_state>>
                /\ last' = [NoOp EXCEPT !.op = "mouseup", !.name = name,
                                        !.was = was]
        /\ UNCHANGED key_state

handle_keydown(key) ==
    LET key_obj == parse_key(key)
        was == Get(key_state, key)
    IN  /\ IF key # "" /\ keydown_gate(key_obj, was)
           THEN /\ held' = [held EXCEPT ![key_obj] = TRUE]
                /\ key_state' = Put(key_state, key, TRUE)
                /\ last' = [NoOp EXCEPT !.op = "keydown", !.name = key,
                                        !.was = was, !.press = 1,
                                        !.dup = held[key_obj]]
           ELSE /\ UNCHANGED <<held, key_state>>
                /\ last' = [NoOp EXCEPT !.op = "keydown", !.name = key,
                                        !.was = was]
        /\ UNCHANGED button_state

handle_keyup(key) ==
    LET key_obj == parse_key(key)
        was == Get(key_state, key)
    IN  /\ IF key # "" /\ keyup_gate(key_obj, was)
           THEN /\ held' = [held EXCEPT ![key_obj] = FALSE]
                /\ key_state' = Put(key_state, key, FALSE)
                /\ last' = [NoOp EXCEPT !.op = "keyup", !.name = key,
                                        !.was = was, !.relK = 1,
                                        !.ghost = ~held[key_obj]]
           ELSE /\ UNCHANGED <<held, key_state>>
                /\ last' = [NoOp EXCEPT !.op = "keyup", !.name = key,
                                        !.was = was]
        /\ UNCHANGED button_state

\* set_desktop_size
set_desktop_size(width, height) ==
    /\ desktop_size' = <<width, height>>
    /\ UNCHANGED <<position, moved>>

\* int((v / client) * desktop) on IEEE doubles: the quotient v / client is
\* rounded before it is multiplied, so a product that is an integer k in
\* exact arithmetic can come out just below k and truncate to k - 1 (82 /
\* 1280 * 1920 is 122.99999999999999). RoundsBelow holds the triples
\* <<v, client, desktop>> among the coordinates, viewports and desktop sizes
\* of the model where it does.
RoundsBelow ==
    {<<82, 1280, 1920>>, <<82, 640, 1920>>, <<26, 720, 1080>>,
     <<26, 720, 1440>>, <<26, 360, 1080>>, <<26, 360, 1440>>}

\* int() of the exact quotient a / b: truncation toward zero
trunc_div(a, b) == IF a >= 0 THEN a \div b ELSE -((-a) \div b)

unscaled(v, client, desktop) == v
double_scale(v, client, desktop) ==
    IF <<v, client, desktop>> \in RoundsBelow
    THEN trunc_div(v * desktop, client) - 1
    ELSE trunc_div(v * desktop, client)

\* max(0, min(pc, self.desktop_width - 1))
clamp_none(pc, size) == pc
clamp(pc, size) == Max(0, Min(pc, size - 1))

\* _transform_coordinates
transform_coordinates(x, y, client_width, client_height) ==
    <<clamp(double_scale(x, client_width, desktop_size[1]), desktop_size[1]),
      clamp(double_scale(y, client_height, desktop_size[2]), desktop_size[2])>>

\* _handle_move: mouse_controller.position = (pc_x, pc_y)
NoMove == [x |-> 0, y |-> 0, cw |-> 0, ch |-> 0]
handle_move(x, y, client_width, client_height) ==
    /\ position' = transform_coordinates(x, y, client_width, client_height)
    /\ moved' = [x |-> x, y |-> y, cw |-> client_width, ch |-> client_height]
    /\ UNCHANGED desktop_size

\* _handle_click: mouse_controller.click(button, count) presses and releases
\* the native button, whatever button_state records
handle_click(name) ==
    LET button == get_button(name)
    IN  /\ held' = [held EXCEPT ![button] = FALSE]
        /\ last' = [NoOp EXCEPT !.op = "click", !.name = name,
                                !.was = Get(button_state, name),
                                !.press = 1, !.relB = 1]
        /\ UNCHANGED <<button_state, key_state>>

\* _handle_keypress: keyboard_controller.tap(key) for a key of one
\* character: a press and a release of the native key
handle_keypress(key) ==
    /\ IF key \in SingleChars
       THEN /\ held' = [held EXCEPT ![from_char(key)] = FALSE]
            /\ last' = [NoOp EXCEPT !.op = "keypress", !.name = key,
                                    !.was = Get(key_state, key),
                                    !.press = 1, !.relK = 1]
       ELSE /\ UNCHANGED held
            /\ last' = [NoOp EXCEPT !.op = "keypress", !.name = key,
                                    !.was = Get(key_state, key)]
    /\ UNCHANGED <<button_state, key_state>>

\* process_event: dispatch on event.type
process_event(e, client_width, client_height) ==
    CASE e.type = "move" ->
            handle_move(e.x, e.y, client_width, client_height)
            /\ UNCHANGED inputVars
      [] e.type = "mousedown" ->
            handle_mousedown(e.name) /\ UNCHANGED pointerVars
      [] e.type = "mouseup" -> handle_mouseup(e.name) /\ UNCHANGED pointerVars
      [] e.type = "keydown" -> handle_keydown(e.name) /\ UNCHANGED pointerVars
      [] e.type = "keyup" -> handle_keyup(e.name) /\ UNCHANGED pointerVars
      [] e.type = "click" -> handle_click(e.name) /\ UNCHANGED pointerVars
      [] e.type = "keypress" ->
            handle_keypress(e.name) /\ UNCHANGED pointerVars
      [] OTHER -> UNCHANGED <<inputVars, pointerVars>>

\* the names release_all releases: `if self.button_state[button_name]`,
\* `if self.key_state.get(key, False)`
all_names(d) == DOMAIN d
pressed_names(d) == {k \in DOMAIN d : d[k]}

release_all ==
    LET relB == pressed_names(button_state)
        relK == {k \in pressed_names(key_state) : parse_key(k) # "None"}
        natives == {get_button(b) : b \in relB} \cup {parse_key(k) : k \in relK}
        twice == \/ \E a, b \in relB : a # b /\ get_button(a) = get_button(b)
                 \/ \E a, b \in relK : a # b /\ parse_key(a) = parse_key(b)
    IN  /\ button_state' = [b \in DOMAIN button_state |-> FALSE]
        /\ key_state' = [k \in DOMAIN key_state |-> FALSE]
        /\ held' = [n \in Natives |-> IF n \in natives THEN FALSE ELSE held[n]]
        /\ last' = [NoOp EXCEPT
                      !.op = "release_all",
                      !.relB = Cardinality(relB),
                      !.relK = Cardinality(relK),
                      !.nB = Cardinality({b \in DOMAIN button_state : button_state[b]}),
                      !.nK = Cardinality({k \in DOMAIN key_state : key_state[k]}),
                      !.ghost = twice \/ \E n \in natives : ~held[n]]

InputEvents ==
    [type : {"mousedown", "mouseup"}, name : ButtonNames]
    \cup [type : {"keydown", "keyup"}, name : KeyNames]

InitInput ==
    /\ button_state = [b \in {"left", "right", "middle"} |-> FALSE]
    /\ key_state = <<>>
    /\ held = [n \in Natives |-> FALSE]
    /\ last = NoOp

\* InputHandler.__init__: desktop 1920x1080 until set_desktop_size
DefaultDesktop == <<1920, 1080>>
InitPointer ==
    /\ desktop_size = DefaultDesktop
    /\ position = <<0, 0>>
    /\ moved = NoMove


\* ----------------------------------------------------------- CaptureEngine
\* the positions of a capture thread in _capture_loop: at the loop test, in
\* an iteration before the pull, in an iteration with a pulled frame, in
\* frame_callback before the flag is read, and in frame_callback before the
\* coroutine is submitted (both with the frame)
AtLoop == [pc |-> "loop", frame |-> 0]
AtTick == [pc |-> "tick", frame |-> 0]
AtFrame == [pc |-> "frame", frame |-> 0]
AtCallback(f) == [pc |-> "callback", frame |-> f]
AtSubmit(f) == [pc |-> "submit", frame |-> f]
ThreadStates ==
    {AtLoop, AtTick, AtFrame} \cup {AtCallback(f) : f \in 1..MaxFrames}
                     \cup {AtSubmit(f) : f \in 1..MaxFrames}

\* threads is the bag of the live capture threads: how many are at each
\* position. A thread that leaves `while self.running` is gone.
RECURSIVE SumOver(_, _)
SumOver(f, S) ==
    IF S = {} THEN 0
    ELSE LET x == CHOOSE y \in S : TRUE IN f[x] + SumOver(f, S \ {x})
LiveThreads == SumOver(threads, ThreadStates)

Spawn(bag) == [bag EXCEPT ![AtLoop] = @ + 1]
Exit(bag, from) == [bag EXCEPT ![from] = @ - 1]
Move(bag, from, to) == [bag EXCEPT ![from] = @ - 1, ![to] = @ + 1]

\* CaptureEngine.start: a no-op while running; otherwise it registers the
\* callback, creates and starts the camera and the capture thread. outcome:
\* "ok", "create_raises" (dxcam.create raised) or "start_raises"
\* (camera.start raised, the camera object is already assigned)
StartOutcomes == {"ok", "create_raises", "start_raises"}

start_body(outcome) ==
    /\ frame_callback' = TRUE
    /\ camera' = IF outcome = "create_raises" THEN camera ELSE "DXCamera"
    /\ running' = (outcome = "ok")
    /\ threads' = IF outcome = "ok" THEN Spawn(threads) ELSE threads

start(outcome) ==
    IF running
    THEN UNCHANGED engineVars
    ELSE start_body(outcome)

\* CaptureEngine.stop: clears the flag and releases the camera; it does not
\* join the capture thread
stop ==
    /\ running' = FALSE
    /\ camera' = "None"
    /\ UNCHANGED <<frame_callback, threads>>

\* `while self.running:` read by a thread
while_true(flag) == TRUE
while_running(flag) == flag

LoopCheck ==
    /\ threads[AtLoop] > 0
    /\ threads' = IF while_running(running) THEN Move(threads, AtLoop, AtTick)
                  ELSE Exit(threads, AtLoop)
    /\ UNCHANGED <<running, camera, frame_callback>>
    /\ UNCHANGED <<serverVars, loopVars, frameVars, inputVars,
                   pointerVars, qualityVars, auxVars>>

\* an iteration that hands nothing to the callback: before the pull, the
\* frame period has not elapsed, the camera is None or the pull raised;
\* after it, no frame is available, the frame is skipped as identical or
\* its encoding failed
TickIdle(from) ==
    /\ threads[from] > 0
    /\ threads' = Move(threads, from, AtLoop)
    /\ UNCHANGED <<running, camera, frame_callback>>
    /\ UNCHANGED <<serverVars, loopVars, frameVars, inputVars,
                   pointerVars, qualityVars, auxVars>>

\* frame = self.camera.get_latest_frame()
PullFrame ==
    /\ threads[AtTick] > 0
    /\ camera # "None"
    /\ threads' = Move(threads, AtTick, AtFrame)
    /\ UNCHANGED <<running, camera, frame_callback>>
    /\ UNCHANGED <<serverVars, loopVars, frameVars, inputVars,
                   pointerVars, qualityVars, auxVars>>

\* the pulled frame is encoded and self.frame_callback(processed) is
\* called: the frames are numbered in that order
TickFrame ==
    /\ threads[AtFrame] > 0
    /\ frame_callback
    /\ nextFrame < MaxFrames
    /\ nextFrame' = nextFrame + 1
    /\ threads' = Move(threads, AtFrame, AtCallback(nextFrame + 1))
    /\ UNCHANGED <<running, camera, frame_callback, busyAt>>
    /\ UNCHANGED <<serverVars, loopVars, inputVars, pointerVars,
                   qualityVars, auxVars>>

\* frame_callback: `if self.is_broadcasting: return`
always_schedule(flag) == FALSE
callback_drops(flag) == flag

CallbackCheck(f) ==
    /\ threads[AtCallback(f)] > 0
    /\ busyAt' = IF is_broadcasting THEN busyAt \cup {f} ELSE busyAt
    /\ threads' = Move(threads, AtCallback(f),
                       IF callback_drops(is_broadcasting) THEN AtLoop
                       ELSE AtSubmit(f))
    /\ UNCHANGED <<running, camera, frame_callback, nextFrame>>
    /\ UNCHANGED <<serverVars, loopVars, inputVars, pointerVars,
                   qualityVars, auxVars>>

\* frame_callback: asyncio.run_coroutine_threadsafe(self._broadcast_frame(..))
\* appends the coroutine to the loop's FIFO of ready callbacks
CallbackSubmit(f) ==
    /\ threads[AtSubmit(f)] > 0
    /\ ready' = IF loop THEN Append(ready, f) ELSE ready
    /\ threads' = Move(threads, AtSubmit(f), AtLoop)
    /\ UNCHANGED <<running, camera, frame_callback, nextFrame, busyAt>>
    /\ UNCHANGED <<emitting, lastDelivery, lastEmitted>>
    /\ UNCHANGED <<serverVars, inputVars, pointerVars, qualityVars, auxVars>>

\* the frames of the model: a shape and one grey level for all pixels
Shapes == {"1080p", "720p"}
Levels == {0, 5, 6, 11, 100}
Frames == [shape : Shapes, px : Levels]
NoFrame == [shape |-> "none", px |-> 0]

\* self.frame_diff_threshold = 0.02 (in hundredths), self.skip_identical_frames
frame_diff_threshold == 2
skip_identical_frames == TRUE
\* the cap of `if consecutive_identical < 5`
skip_cap == 5

\* _frames_identical: equal shapes and np.mean(diff) / 255.0 below the
\* threshold (the mean of the differences is the difference of the levels)
frames_identical(frame1, frame2) ==
    IF frame1.shape # frame2.shape THEN FALSE
    ELSE Abs(frame1.px - frame2.px) * 100 < frame_diff_threshold * 255

\* `if consecutive_identical < 5: continue`
skip_below_or_at(counter) == counter <= skip_cap
skip_below(counter) == counter < skip_cap

\* one iteration of _capture_loop from camera.get_latest_frame() on, with
\* the callback registered: frame is the frame pulled (NoFrame for None),
\* encoded tells whether _process_frame returned bytes. lastTick keeps the
\* classification, whether the frame passed the change detection and
\* whether it was handed to the callback.
NoTick == [pulled |-> FALSE, identical |-> FALSE, passed |-> FALSE,
           sent |-> FALSE]
capture_tick(frame, encoded) ==
    IF frame = NoFrame
    THEN /\ lastTick' = NoTick
         /\ UNCHANGED <<last_frame, consecutive_identical, skipped_run>>
    ELSE LET identical == /\ skip_identical_frames
                          /\ last_frame # NoFrame
                          /\ frames_identical(frame, last_frame)
             counted == IF identical THEN consecutive_identical + 1
                        ELSE consecutive_identical
         IN  IF identical /\ skip_below(counted)
             THEN /\ consecutive_identical' = counted
                  /\ skipped_run' = skipped_run + 1
                  /\ lastTick' = [pulled |-> TRUE, identical |-> TRUE,
                                  passed |-> FALSE, sent |-> FALSE]
                  /\ UNCHANGED last_frame
             ELSE /\ consecutive_identical' = 0
                  /\ skipped_run' = 0
                  /\ last_frame' = IF encoded THEN frame ELSE last_frame
                  /\ lastTick' = [pulled |-> TRUE, identical |-> identical,
                                  passed |-> TRUE, sent |-> encoded]

\* a stop() and the next start(): a new _capture_loop begins with its
\* counter at 0; self.last_frame stays
loop_restart ==
    /\ consecutive_identical' = 0
    /\ skipped_run' = 0
    /\ lastTick' = NoTick
    /\ UNCHANGED last_frame

InitCapture ==
    /\ last_frame = NoFrame
    /\ consecutive_identical = 0
    /\ skipped_run = 0
    /\ lastTick = NoTick

\* the threads that call start() and stop()
Callers == {"c1", "c2"}

InitCall ==
    /\ lock = "free"
    /\ caller = [c \in Callers |-> "idle"]
    /\ created = 0
    /\ callback_owner = "none"
    /\ start_result = [c \in Callers |-> "none"]

InitStop ==
    /\ stopped = FALSE
    /\ framesAtStop = 0
    /\ inFlightAtStop = 0

NoFail == [kind |-> "none", slept |-> FALSE]

InitFail ==
    /\ failures = 0
    /\ lastFail = NoFail

InitEmit ==
    /\ emit_failed = {}
    /\ propagated = {}
    /\ failedAt = 0

\* InputHandler.__init__: last_action_time = 0, min_action_interval = 0.005;
\* the clock already shows more than that when the handler is built
min_action_interval == 5
StartTime == 10

InitRate ==
    /\ now = StartTime
    /\ last_action_time = 0
    /\ stamps = <<>>
    /\ dispatchAt = 0

InitSize ==
    /\ size_sets = 0
    /\ size_set_by = "none"

InitPair ==
    /\ input_lock = "free"
    /\ writer = "idle"
    /\ pending = <<1920, 1080>>
    /\ size_before = <<1920, 1080>>
    /\ reader = "idle"
    /\ reads = <<>>

\* nothing pressed, no input and no pong handled yet; the stats of
\* CaptureEngine.__init__
NoInput == [sid |-> "none", event |-> [type |-> "none"], accepted |-> FALSE,
            viewport |-> <<0, 0>>, stamp |-> 0]
NoSample == [sid |-> "none", at |-> 0, ms |-> 0]

InitLate ==
    /\ pressed_by = [n \in Natives |-> "none"]
    /\ lastInput = NoInput
    /\ last_ping = [sid \in Sids |-> 0]
    /\ lastSample = NoSample
    /\ frames_captured = 0
    /\ frames_sent = 0
    /\ frames_skipped = 0

InitAux ==
    /\ InitCapture /\ InitCall /\ InitStop /\ InitFail /\ InitEmit
    /\ InitRate
    /\ InitSize
    /\ InitPair
    /\ InitLate

\* ------------------------------------------------------------- Broadcaster
\* _broadcast_frame up to its await: `if self.connected_clients:` then the
\* flag is set and the emit begins, to every session of the namespace
emit_always(clients) == TRUE
broadcast_guard(clients) == clients # {}

NoDelivery == [frame |-> 0, clients |-> {}, emits |-> <<>>]

BroadcastBegin ==
    /\ ready # <<>>
    /\ ready' = Tail(ready)
    /\ IF broadcast_guard(connected_clients)
       THEN /\ is_broadcasting' = TRUE
            /\ emitting' = emitting \cup {Head(ready)}
            /\ lastEmitted' = Head(ready)
            /\ lastDelivery' = [frame |-> Head(ready),
                                clients |-> connected_clients,
                                emits |-> <<connected_clients>>]
       ELSE /\ lastDelivery' = [frame |-> Head(ready),
                                clients |-> connected_clients,
                                emits |-> <<>>]
            /\ UNCHANGED <<is_broadcasting, emitting, lastEmitted>>
    /\ UNCHANGED <<connected_clients, client_resolutions, latency_tracker, loop,
                   lastConn>>
    /\ UNCHANGED <<engineVars, frameVars, inputVars, pointerVars,
                   qualityVars, auxVars>>

\* the emit ends: the finally block clears the flag
BroadcastEnd(f) ==
    /\ f \in emitting
    /\ emitting' = emitting \ {f}
    /\ is_broadcasting' = FALSE
    /\ UNCHANGED <<ready, lastDelivery, lastEmitted>>
    /\ UNCHANGED <<connected_clients, client_resolutions, latency_tracker, loop,
                   lastConn>>
    /\ UNCHANGED <<engineVars, frameVars, inputVars, pointerVars,
                   qualityVars, auxVars>>

\* `await self.sio.emit("frame", frame_data)` raises: `except Exception`
\* logs the error, so the coroutine ends without an exception, and the
\* finally block clears the flag
clear_after_emit(raised) == ~raised
clear_in_finally(raised) == TRUE
except_logs(raised) == raised

BroadcastFails(f) ==
    /\ f \in emitting
    /\ emitting' = emitting \ {f}
    /\ is_broadcasting' = IF clear_in_finally(TRUE) THEN FALSE
                          ELSE is_broadcasting
    /\ emit_failed' = emit_failed \cup {f}
    /\ propagated' = IF except_logs(TRUE) THEN propagated
                     ELSE propagated \cup {f}
    /\ failedAt' = nextFrame
    /\ UNCHANGED <<ready, lastDelivery, lastEmitted>>
    /\ UNCHANGED <<connected_clients, client_resolutions, latency_tracker, loop,
                   lastConn>>
    /\ UNCHANGED <<engineVars, frameVars, inputVars, pointerVars,
                   qualityVars, captureVars, callVars, stopVars, failVars,
                   jpegVars, windowVars, rateVars, sizeVars, pairVars,
                   lateVars>>

\* --------------------------------------------------------- socket handlers
Viewports == {<<1280, 720>>}

\* connect: `if len(self.connected_clients) == 1:`
connect_starts_always(n) == TRUE
connect_starts(n) == n = 1

\* disconnect: `if not self.connected_clients:`
disconnect_stops(clients) == clients = {}

NoConn == [op |-> "none", before |-> 0, after |-> 0, start |-> 0,
           stop |-> FALSE, relall |-> FALSE]

\* get_desktop_size() of the model's screen when nothing else is said: the
\* metrics of a 1920x1080 monitor (and the value of its except branch)
ScreenMetrics == <<1920, 1080>>

\* connect: the session is recorded; when it is the only one the desktop
\* size is read and written to the InputHandler, and the engine is started
connect(sid, outcome, metrics) ==
    /\ sid \notin connected_clients
    /\ loop' = TRUE
    /\ connected_clients' = connected_clients \cup {sid}
    /\ latency_tracker' = latency_tracker \cup {sid}
    /\ last_ping' = [last_ping EXCEPT ![sid] = now]
    /\ IF connect_starts(Cardinality(connected_clients'))
       THEN /\ ~running => LiveThreads < MaxThreads
            /\ start(outcome)
       ELSE /\ outcome = "ok"
            /\ UNCHANGED engineVars
    /\ lastConn' = [NoConn EXCEPT
                      !.op = "connect",
                      !.before = Cardinality(connected_clients),
                      !.after = Cardinality(connected_clients'),
                      !.start = IF connect_starts(Cardinality(connected_clients'))
                                THEN 1 ELSE 0]
    /\ IF connect_starts(Cardinality(connected_clients'))
       THEN set_desktop_size(metrics[1], metrics[2])
       ELSE UNCHANGED pointerVars
    /\ UNCHANGED <<client_resolutions, is_broadcasting>>

Connect(sid, outcome) ==
    /\ connect(sid, outcome, ScreenMetrics)
    /\ UNCHANGED <<loopVars, frameVars, inputVars, qualityVars, unpingedVars>>

\* `if sid in d: del d[sid]`
keep_key(d, k) == d
del_key(d, k) == [s \in DOMAIN d \ {k} |-> d[s]]

Disconnect(sid) ==
    /\ sid \in connected_clients
    /\ connected_clients' = connected_clients \ {sid}
    /\ client_resolutions' = del_key(client_resolutions, sid)
    /\ latency_tracker' = latency_tracker \ {sid}
    /\ last_ping' = [last_ping EXCEPT ![sid] = 0]
    /\ IF disconnect_stops(connected_clients')
       THEN stop /\ release_all
       ELSE UNCHANGED <<engineVars, inputVars>>
    /\ lastConn' = [NoConn EXCEPT
                      !.op = "disconnect",
                      !.before = Cardinality(connected_clients),
                      !.after = Cardinality(connected_clients'),
                      !.stop = disconnect_stops(connected_clients'),
                      !.relall = disconnect_stops(connected_clients')]
    /\ UNCHANGED <<loop, is_broadcasting>>
    /\ UNCHANGED <<loopVars, frameVars, pointerVars, qualityVars, unpingedVars>>

\* viewport: self.client_resolutions[sid] = (width, height)
Viewport(sid, size) ==
    /\ sid \in connected_clients
    /\ sid \in DOMAIN client_resolutions => client_resolutions[sid] # size
    /\ client_resolutions' = Put(client_resolutions, sid, size)
    /\ UNCHANGED <<connected_clients, latency_tracker, loop, is_broadcasting,
                   lastConn>>
    /\ UNCHANGED <<engineVars, loopVars, frameVars, inputVars,
                   pointerVars, qualityVars, auxVars>>

\* input: `if sid not in self.client_resolutions: return`, then process_event
Input(sid, e) ==
    /\ sid \in connected_clients
    /\ sid \in DOMAIN client_resolutions
    /\ process_event(e, client_resolutions[sid][1], client_resolutions[sid][2])
    /\ UNCHANGED <<serverVars, engineVars, loopVars, frameVars,
                   qualityVars, auxVars>>

\* the events the sessions of Spec send
ServerEvents == [type : {"mousedown", "mouseup"}, name : {"left"}]

InitServer ==
    /\ connected_clients = {}
    /\ client_resolutions = <<>>
    /\ latency_tracker = {}
    /\ loop = FALSE
    /\ is_broadcasting = FALSE
    /\ lastConn = NoConn
    /\ running = FALSE
    /\ camera = "None"
    /\ frame_callback = FALSE
    /\ threads = [st \in ThreadStates |-> 0]
    /\ ready = <<>>
    /\ emitting = {}
    /\ lastDelivery = NoDelivery
    /\ lastEmitted = 0
    /\ nextFrame = 0
    /\ busyAt = {}

\* Config.jpeg_quality's default, in hundredths
DefaultQuality == 85

\* int(quality * 100) on IEEE doubles, for a quality of q hundredths: the
\* product falls just below the integer for these q (0.57 * 100 is
\* 56.99999999999999), and int() truncates towards zero
TruncatesShort == {-58, -57, -29, 29, 57, 58, 113, 114, 115, 116}
int_percent(q) ==
    IF q \in TruncatesShort THEN (IF q > 0 THEN q - 1 ELSE q + 1) ELSE q

\* CaptureEngine.set_quality: max(30, min(100, int(quality * 100)))
clamp_top_only(percent) == Min(100, percent)
clamp_quality(percent) == Max(30, Min(100, percent))

NoSet == [called |-> FALSE, q |-> 0]
set_quality(q) ==
    /\ current_jpeg_quality' = clamp_quality(int_percent(q))
    /\ lastSet' = [called |-> TRUE, q |-> q]

NoEncode == [done |-> FALSE, used |-> 0, reported |-> 0, after |-> "none"]

\* QualityController.__init__(config.jpeg_quality) and, in
\* CaptureEngine.__init__, current_jpeg_quality = int(config.jpeg_quality * 100)
InitQuality(base) ==
    /\ base_quality = base
    /\ current_quality = base
    /\ latency_samples = <<>>
    /\ previous_quality = base
    /\ calls = 0
    /\ current_jpeg_quality = int_percent(base)
    /\ lastSet = NoSet
    /\ pong = "idle"
    /\ lastEncode = NoEncode
    /\ fed = <<>>

Init ==
    /\ InitServer
    /\ InitInput
    /\ InitPointer
    /\ InitAux
    /\ InitQuality(DefaultQuality)

Next ==
    \/ \E sid \in Sids, outcome \in StartOutcomes : Connect(sid, outcome)
    \/ \E sid \in Sids : Disconnect(sid)
    \/ LoopCheck
    \/ \E from \in {AtTick, AtFrame} : TickIdle(from)
    \/ PullFrame
    \/ TickFrame
    \/ \E f \in 1..MaxFrames : CallbackCheck(f)
    \/ \E f \in 1..MaxFrames : CallbackSubmit(f)
    \/ BroadcastBegin
    \/ \E f \in 1..MaxFrames : BroadcastEnd(f)

Spec == Init /\ [][Next]_vars

\* InputHandler driven directly
InputStep(e) ==
    /\ process_event(e, 1280, 720)
    /\ UNCHANGED <<serverVars, engineVars, loopVars, frameVars,
                   qualityVars, auxVars>>

ReleaseAll ==
    /\ release_all
    /\ UNCHANGED <<serverVars, engineVars, loopVars, frameVars, pointerVars,
                   qualityVars, auxVars>>

NextInput ==
    \/ \E e \in InputEvents : InputStep(e)
    \/ ReleaseAll

SpecInput == Init /\ [][NextInput]_vars

\* InputHandler with the taps: click and keypress among the presses and
\* releases, on names that each have a native button or key of their own
TapEvents ==
    [type : {"mousedown", "mouseup", "click"}, name : {"left", "right"}]
    \cup [type : {"keydown", "keyup", "keypress"}, name : {"a", "Enter"}]

NextTaps ==
    \/ \E e \in TapEvents : InputStep(e)
    \/ ReleaseAll

SpecTaps == Init /\ [][NextTaps]_vars

\* process_event with its clock: _rate_limit reads time.time(), sleeps
\* min_action_interval - elapsed when elapsed is below the interval
\* (time.sleep returns after at least that long: `over` is the excess),
\* stamps last_action_time with time.time(), and the dispatch on the event
\* type follows `lag` later. The input handler of the server calls
\* process_event on the event loop, one event at a time
sleeps_never(elapsed) == FALSE
too_soon(elapsed) == elapsed < min_action_interval

rate_limit_returns(at, over) ==
    IF too_soon(at - last_action_time)
    THEN at + (min_action_interval - (at - last_action_time)) + over
    ELSE at

RateEvents ==
    {[type |-> "mousedown", name |-> "left"],
     [type |-> "mouseup", name |-> "left"],
     [type |-> "keydown", name |-> "a"],
     [type |-> "bogus", name |-> ""]}

RateEvent(e, over, lag) ==
    LET stamp == rate_limit_returns(now, over)
    IN  /\ stamp + lag <= MaxTime
        /\ last_action_time' = stamp
        /\ stamps' = IF stamps = <<>> THEN <<stamp>>
                     ELSE <<stamps[Len(stamps)], stamp>>
        /\ dispatchAt' = stamp + lag
        /\ now' = stamp + lag
        /\ process_event(e, 1280, 720)
        /\ UNCHANGED <<serverVars, engineVars, loopVars, frameVars,
                       qualityVars, captureVars, callVars, stopVars,
                       failVars, emitVars, jpegVars, windowVars, sizeVars, pairVars,
                       lateVars>>

\* time passes between two events
Elapse(ms) ==
    /\ now + ms <= MaxTime
    /\ now' = now + ms
    /\ UNCHANGED <<last_action_time, stamps, dispatchAt>>
    /\ UNCHANGED <<serverVars, engineVars, loopVars, frameVars, inputVars,
                   pointerVars, qualityVars, captureVars, callVars, stopVars,
                   failVars, emitVars, jpegVars, windowVars, sizeVars, pairVars,
                   lateVars>>

Tick == Elapse(1)

NextRate ==
    \/ \E e \in RateEvents, over \in 0..1, lag \in 0..1 : RateEvent(e, over, lag)
    \/ Tick

SpecRate == Init /\ [][NextRate]_vars

\* the pointer path driven directly: desktop sizes, viewports and moves
DesktopSizes == {<<1920, 1080>>, <<2560, 1440>>, <<1, 1>>}
MoveViewports == {<<1280, 720>>, <<640, 360>>}
TouchXs == {-5, 0, 82, 640, 1280, 1500}
TouchYs == {-5, 0, 26, 360, 720, 900}
MoveEvents == [type : {"move"}, x : TouchXs, y : TouchYs]

SetDesktopSize(size) ==
    /\ set_desktop_size(size[1], size[2])
    /\ UNCHANGED <<serverVars, engineVars, loopVars, frameVars, inputVars,
                   qualityVars, auxVars>>

MoveStep(e, viewport) ==
    /\ process_event(e, viewport[1], viewport[2])
    /\ UNCHANGED <<serverVars, engineVars, loopVars, frameVars,
                   qualityVars, auxVars>>

NextPointer ==
    \/ \E size \in DesktopSizes : SetDesktopSize(size)
    \/ \E e \in MoveEvents, viewport \in MoveViewports : MoveStep(e, viewport)

SpecPointer == Init /\ [][NextPointer]_vars

\* sessions that come and go, on screens of several sizes, with the count
\* of the set_desktop_size calls the connect handler makes
ConnectSized(sid, outcome, metrics) ==
    /\ connect(sid, outcome, metrics)
    /\ IF connect_starts(Cardinality(connected_clients'))
       THEN /\ size_sets < MaxSizeSets
            /\ size_sets' = size_sets + 1
            /\ size_set_by' = sid
       ELSE UNCHANGED sizeVars
    /\ UNCHANGED <<loopVars, frameVars, inputVars, qualityVars, captureVars,
                   callVars, stopVars, failVars, emitVars, jpegVars,
                   windowVars, rateVars, pairVars, sessVars, lastSample,
                   statVars>>

NextDesktop ==
    \/ \E sid \in Sids, outcome \in StartOutcomes, metrics \in DesktopSizes :
          ConnectSized(sid, outcome, metrics)
    \/ \E sid \in Sids : Disconnect(sid)
    \/ LoopCheck
    \/ TickIdle(AtTick)

SpecDesktop == Init /\ [][NextDesktop]_vars

\* set_desktop_size and _transform_coordinates called from two threads,
\* statement by statement: each takes self.lock, the writer assigns the
\* width and then the height, the reader reads the width and the height
\* for the scaling and again for the clamping, and the lock is released
\* when the `with` block is left
input_lock_ignored(holder) == TRUE
input_lock_free(holder) == holder = "free"

otherVars == <<serverVars, engineVars, loopVars, frameVars, inputVars,
               qualityVars, captureVars, callVars, stopVars, failVars,
               emitVars, jpegVars, windowVars, rateVars, sizeVars, lateVars>>

SizeCall(size) ==
    /\ writer = "idle"
    /\ writer' = "wait"
    /\ pending' = size
    /\ size_before' = desktop_size
    /\ UNCHANGED <<input_lock, reader, reads, pointerVars, otherVars>>

SizeAcquire ==
    /\ writer = "wait"
    /\ input_lock_free(input_lock)
    /\ input_lock' = "writer"
    /\ writer' = "width"
    /\ UNCHANGED <<pending, size_before, reader, reads, pointerVars,
                   otherVars>>

SizeWriteWidth ==
    /\ writer = "width"
    /\ desktop_size' = <<pending[1], desktop_size[2]>>
    /\ writer' = "height"
    /\ UNCHANGED <<input_lock, pending, size_before, reader, reads, position,
                   moved, otherVars>>

SizeWriteHeight ==
    /\ writer = "height"
    /\ desktop_size' = <<desktop_size[1], pending[2]>>
    /\ writer' = "idle"
    /\ input_lock' = "free"
    /\ UNCHANGED <<pending, size_before, reader, reads, position, moved,
                   otherVars>>

MoveCall(e, viewport) ==
    /\ reader = "idle"
    /\ reader' = "wait"
    /\ reads' = <<>>
    /\ moved' = [x |-> e.x, y |-> e.y, cw |-> viewport[1], ch |-> viewport[2]]
    /\ UNCHANGED <<input_lock, writer, pending, size_before, desktop_size,
                   position, otherVars>>

MoveAcquire ==
    /\ reader = "wait"
    /\ input_lock_free(input_lock)
    /\ input_lock' = "reader"
    /\ reader' = "read"
    /\ UNCHANGED <<writer, pending, size_before, reads, pointerVars,
                   otherVars>>

\* the reads of self.desktop_width (the first and third) and of
\* self.desktop_height (the second and fourth)
MoveRead ==
    /\ reader = "read"
    /\ Len(reads) < 3
    /\ reads' = Append(reads, desktop_size[IF Len(reads) = 1 THEN 2 ELSE 1])
    /\ UNCHANGED <<input_lock, writer, pending, size_before, reader,
                   pointerVars, otherVars>>

\* the last read, the return of the pair and, in _handle_move, the
\* assignment of mouse_controller.position
MoveReturn ==
    /\ reader = "read"
    /\ Len(reads) = 3
    /\ reads' = Append(reads, desktop_size[2])
    /\ position' = <<clamp(double_scale(moved.x, moved.cw, reads[1]), reads[3]),
                     clamp(double_scale(moved.y, moved.ch, reads[2]),
                           reads'[4])>>
    /\ reader' = "idle"
    /\ input_lock' = "free"
    /\ UNCHANGED <<writer, pending, size_before, desktop_size, moved,
                   otherVars>>

PairMoves == [type : {"move"}, x : {640, 1500}, y : {360, 900}]

NextPair ==
    \/ \E size \in DesktopSizes : SizeCall(size)
    \/ SizeAcquire
    \/ SizeWriteWidth
    \/ SizeWriteHeight
    \/ \E e \in PairMoves : MoveCall(e, <<1280, 720>>)
    \/ MoveAcquire
    \/ MoveRead
    \/ MoveReturn

SpecPair == Init /\ [][NextPair]_vars

\* one capture loop driven directly: the frames the camera returns and the
\* outcome of their encoding
CaptureTick(frame, encoded) ==
    /\ capture_tick(frame, encoded)
    /\ UNCHANGED <<serverVars, engineVars, loopVars, frameVars, inputVars,
                   pointerVars, qualityVars, callVars, stopVars,
                   failVars, emitVars, jpegVars, windowVars, rateVars, sizeVars, pairVars,
                   lateVars>>

LoopRestart ==
    /\ loop_restart
    /\ UNCHANGED <<serverVars, engineVars, loopVars, frameVars, inputVars,
                   pointerVars, qualityVars, callVars, stopVars,
                   failVars, emitVars, jpegVars, windowVars, rateVars, sizeVars, pairVars,
                   lateVars>>

NextCapture ==
    \/ \E frame \in Frames \cup {NoFrame}, encoded \in BOOLEAN :
          CaptureTick(frame, encoded)
    \/ LoopRestart

SpecCapture == Init /\ [][NextCapture]_vars

\* one capture loop with its statistics: frames_captured is incremented
\* after every pull, frames_skipped for every frame found identical (before
\* the test of the counter), frames_sent after the callback
CountedTick(frame, encoded) ==
    /\ frames_captured < MaxCaptured
    /\ capture_tick(frame, encoded)
    /\ frames_captured' = frames_captured + 1
    /\ frames_skipped' = frames_skipped + (IF lastTick'.identical THEN 1 ELSE 0)
    /\ frames_sent' = frames_sent + (IF lastTick'.sent THEN 1 ELSE 0)
    /\ UNCHANGED <<serverVars, engineVars, loopVars, frameVars, inputVars,
                   pointerVars, qualityVars, callVars, stopVars,
                   failVars, emitVars, jpegVars, windowVars, rateVars,
                   sizeVars, pairVars, sessVars, pingVars>>

NextStats ==
    \E frame \in Frames \cup {NoFrame}, encoded \in BOOLEAN :
        CountedTick(frame, encoded)

SpecStats == Init /\ [][NextStats]_vars

\* start() and stop() called from several threads, step by step: the call,
\* `with self.lock`, `if self.running: return`, the rest of the body
lock_free(holder) == holder = "free"

\* start(): `except Exception as e: ... raise` hands the failure of
\* dxcam.create or camera.start to the caller, and `with self.lock` releases
\* the lock however the body is left
reraised(outcome) == outcome # "ok"
released_on_return(outcome) == outcome = "ok"
with_releases(outcome) == TRUE

restVars == <<serverVars, loopVars, frameVars, inputVars, pointerVars,
              qualityVars, captureVars, stopVars, failVars, emitVars,
              jpegVars, windowVars, rateVars, sizeVars, pairVars,
              lateVars>>

CallStart(c) ==
    /\ caller[c] = "idle"
    /\ caller' = [caller EXCEPT ![c] = "start_wait"]
    /\ start_result' = [start_result EXCEPT ![c] = "none"]
    /\ UNCHANGED <<lock, created, callback_owner, engineVars, restVars>>

CallStop(c) ==
    /\ caller[c] = "idle"
    /\ caller' = [caller EXCEPT ![c] = "stop_wait"]
    /\ UNCHANGED <<lock, created, callback_owner, start_result, engineVars,
                   restVars>>

Acquire(c) ==
    /\ caller[c] \in {"start_wait", "stop_wait"}
    /\ lock_free(lock)
    /\ lock' = c
    /\ caller' = [caller EXCEPT ![c] = IF caller[c] = "start_wait"
                                       THEN "start_locked" ELSE "stop_locked"]
    /\ UNCHANGED <<created, callback_owner, start_result, engineVars,
                   restVars>>

StartCheck(c) ==
    /\ caller[c] = "start_locked"
    /\ IF running
       THEN /\ caller' = [caller EXCEPT ![c] = "idle"]
            /\ lock' = "free"
            /\ start_result' = [start_result EXCEPT ![c] = "returned"]
       ELSE /\ caller' = [caller EXCEPT ![c] = "start_init"]
            /\ UNCHANGED <<lock, start_result>>
    /\ UNCHANGED <<created, callback_owner, engineVars, restVars>>

StartInit(c, outcome) ==
    /\ caller[c] = "start_init"
    /\ outcome = "ok" => LiveThreads < MaxThreads
    /\ start_body(outcome)
    /\ created' = IF outcome = "ok" THEN created + 1 ELSE created
    /\ callback_owner' = c
    /\ caller' = [caller EXCEPT ![c] = "idle"]
    /\ start_result' = [start_result EXCEPT
                           ![c] = IF reraised(outcome) THEN "raised"
                                  ELSE "returned"]
    /\ lock' = IF with_releases(outcome) THEN "free" ELSE c
    /\ UNCHANGED restVars

StopBody(c) ==
    /\ caller[c] = "stop_locked"
    /\ stop
    /\ created' = 0
    /\ caller' = [caller EXCEPT ![c] = "idle"]
    /\ lock' = "free"
    /\ UNCHANGED <<callback_owner, start_result, restVars>>

NextEngine ==
    \/ \E c \in Callers : CallStart(c)
    \/ \E c \in Callers : CallStop(c)
    \/ \E c \in Callers : Acquire(c)
    \/ \E c \in Callers : StartCheck(c)
    \/ \E c \in Callers, outcome \in StartOutcomes : StartInit(c, outcome)
    \/ \E c \in Callers : StopBody(c)
    \/ LoopCheck
    \/ TickIdle(AtTick)

SpecEngine == Init /\ [][NextEngine]_vars

\* start() and stop() with the capture threads running, and the history of
\* the last stop(): the frames handed over and the iterations in flight
\* when it returned
in_flight(bag) == bag[AtTick] + bag[AtFrame]

StartEngine(outcome) ==
    /\ (~running /\ outcome = "ok") => LiveThreads < MaxThreads
    /\ start(outcome)
    /\ stopped' = FALSE
    /\ UNCHANGED <<framesAtStop, inFlightAtStop>>
    /\ UNCHANGED <<serverVars, loopVars, frameVars, inputVars, pointerVars,
                   qualityVars, captureVars, callVars,
                   failVars, emitVars, jpegVars, windowVars, rateVars, sizeVars, pairVars,
                   lateVars>>

StopEngine ==
    /\ stop
    /\ stopped' = TRUE
    /\ framesAtStop' = nextFrame
    /\ inFlightAtStop' = in_flight(threads)
    /\ UNCHANGED <<serverVars, loopVars, frameVars, inputVars, pointerVars,
                   qualityVars, captureVars, callVars,
                   failVars, emitVars, jpegVars, windowVars, rateVars, sizeVars, pairVars,
                   lateVars>>

ThreadStep ==
    \/ LoopCheck
    \/ \E from \in {AtTick, AtFrame} : TickIdle(from)
    \/ PullFrame
    \/ TickFrame
    \/ \E f \in 1..MaxFrames : CallbackCheck(f)
    \/ \E f \in 1..MaxFrames : CallbackSubmit(f)

NextStop ==
    \/ \E outcome \in StartOutcomes : StartEngine(outcome)
    \/ StopEngine
    \/ ThreadStep

\* the capture threads are daemon threads the scheduler keeps running, and
\* no step of the loop blocks (its sleeps are bounded): a thread that can
\* take a step eventually takes one
SpecStop == Init /\ [][NextStop]_vars /\ WF_vars(ThreadStep)

\* the failures of one iteration of _capture_loop. get_latest_frame() or
\* self.frame_callback(processed) raising is caught by the loop's
\* `except Exception`, which logs and calls time.sleep(0.01); a failing
\* imencode is caught inside _process_frame, which logs and returns None, so
\* that `if processed and self.frame_callback` is false and the iteration
\* ends without any sleep
FailureKinds == {"pull", "encode", "callback"}
caught(kind) == kind \in FailureKinds
backoff(kind) == kind \in {"pull", "callback"}

tick_fails(kind, from) ==
    /\ failures < MaxFailures
    /\ threads[from] > 0
    /\ threads' = IF caught(kind) THEN Move(threads, from, AtLoop)
                  ELSE Exit(threads, from)
    /\ failures' = failures + 1
    /\ lastFail' = [kind |-> kind, slept |-> backoff(kind)]
    /\ UNCHANGED <<running, camera, frame_callback>>
    /\ UNCHANGED <<serverVars, loopVars, frameVars, inputVars, pointerVars,
                   qualityVars, captureVars, callVars, stopVars, emitVars,
                   jpegVars, windowVars, rateVars, sizeVars, pairVars,
                   lateVars>>

PullRaises == tick_fails("pull", AtTick)
EncodeFails == tick_fails("encode", AtFrame)
CallbackRaises(f) == tick_fails("callback", AtSubmit(f))

NextFail ==
    \/ \E sid \in Sids, outcome \in StartOutcomes : Connect(sid, outcome)
    \/ \E sid \in Sids : Disconnect(sid)
    \/ ThreadStep
    \/ PullRaises
    \/ EncodeFails
    \/ \E f \in 1..MaxFrames : CallbackRaises(f)

SpecFail == Init /\ [][NextFail]_vars

\* the Broadcaster with emits that raise: sessions connect, the capture
\* thread hands frames over and the event loop delivers them
NextBroadcast ==
    \/ \E sid \in Sids : Connect(sid, "ok")
    \/ ThreadStep
    \/ BroadcastBegin
    \/ \E f \in 1..MaxFrames : BroadcastEnd(f)
    \/ \E f \in 1..MaxFrames : BroadcastFails(f)

SpecBroadcast == Init /\ [][NextBroadcast]_vars


\* ------------------------------------------------------- QualityController
\* qualities are in hundredths (0.85 is 85), latencies in milliseconds
max_samples == 10
min_quality == 40
max_quality == 100
low_latency_threshold == 50
high_latency_threshold == 200

\* the --quality arguments and the latency samples of the model
ArgQualities == {5, 10, 35, 45, 85, 95, 100, 150}
Latencies == {20, 50, 200, 300}

\* Config.from_args: quality = max(0.1, min(1.0, args.quality))
from_args_quality(q) == Max(10, Min(100, q))

RECURSIVE Sum(_)
Sum(seq) == IF seq = <<>> THEN 0 ELSE Head(seq) + Sum(Tail(seq))

\* `abs(target - self.current_quality) > 0.05` on IEEE doubles: among the
\* qualities of the model, 0.4 - 0.35 and 1.0 - 0.95 are
\* 0.050000000000000044 (above 0.05), 0.45 - 0.4 is 0.04999999999999999
DoubleAbove == {<<35, 40>>, <<40, 35>>, <<95, 100>>, <<100, 95>>}
never_exceeds(target, current) == FALSE
exceeds_hysteresis(target, current) ==
    Abs(target - current) > 5 \/ <<target, current>> \in DoubleAbove

\* the target of _adjust_quality for a window (avg = Sum / Len, and
\* comparing Sum with threshold * Len is exact for integer samples)
target_quality_inclusive(samples, base) ==
    IF Sum(samples) <= low_latency_threshold * Len(samples)
    THEN Min(base + 10, max_quality)
    ELSE IF Sum(samples) >= high_latency_threshold * Len(samples)
    THEN Max(base - 20, min_quality)
    ELSE base

target_quality_swapped(samples, base) ==
    IF Sum(samples) < low_latency_threshold * Len(samples)
    THEN Max(base - 20, min_quality)
    ELSE IF Sum(samples) > high_latency_threshold * Len(samples)
    THEN Min(base + 10, max_quality)
    ELSE base

target_quality(samples, base) ==
    IF Sum(samples) < low_latency_threshold * Len(samples)
    THEN Min(base + 10, max_quality)
    ELSE IF Sum(samples) > high_latency_threshold * Len(samples)
    THEN Max(base - 20, min_quality)
    ELSE base

\* _adjust_quality: the quality after the window became `samples`
adjust_quality_eager(samples, base, current) ==
    IF exceeds_hysteresis(target_quality(samples, base), current)
    THEN target_quality(samples, base)
    ELSE current

adjust_quality(samples, base, current) ==
    IF Len(samples) < 3 THEN current
    ELSE IF exceeds_hysteresis(target_quality(samples, base), current)
    THEN target_quality(samples, base)
    ELSE current

\* record_latency: append, evict the oldest beyond max_samples, adjust
window_drops_newest(samples, ms) ==
    IF Len(samples) + 1 > max_samples THEN samples
    ELSE Append(samples, ms)

window_after(samples, ms) ==
    IF Len(samples) + 1 > max_samples THEN Tail(Append(samples, ms))
    ELSE Append(samples, ms)

record_latency(ms) ==
    /\ calls' = calls + 1
    /\ latency_samples' = window_after(latency_samples, ms)
    /\ previous_quality' = current_quality
    /\ current_quality' = adjust_quality(latency_samples', base_quality,
                                         current_quality)
    /\ UNCHANGED base_quality

get_quality == current_quality

RecordLatency(ms) ==
    /\ calls < MaxCalls
    /\ record_latency(ms)
    /\ UNCHANGED <<serverVars, engineVars, loopVars, frameVars,
                   inputVars, pointerVars, auxVars>>

InitQ ==
    /\ InitServer
    /\ InitInput
    /\ InitPointer
    /\ InitAux
    /\ \E q \in ArgQualities : InitQuality(from_args_quality(q))

NextQ == \E ms \in Latencies : RecordLatency(ms)

SpecQuality == InitQ /\ [][NextQ]_vars

\* runs long enough for the window to fill and evict: a stall of 2100 ms
\* among round trips of 1 ms
RunLatencies == {1, 2100}

RecordLatencyRun(ms) ==
    /\ calls < MaxRunCalls
    /\ record_latency(ms)
    /\ UNCHANGED <<serverVars, engineVars, loopVars, frameVars,
                   inputVars, pointerVars, auxVars>>

NextQRun == \E ms \in RunLatencies : RecordLatencyRun(ms)

SpecQualityRun == InitQ /\ [][NextQRun]_vars

\* the same runs with the log of the samples
RecordLatencyLogged(ms) ==
    /\ calls < MaxRunCalls
    /\ record_latency(ms)
    /\ fed' = Append(fed, ms)
    /\ UNCHANGED <<serverVars, engineVars, loopVars, frameVars, inputVars,
                   pointerVars, captureVars, callVars, stopVars, failVars,
                   emitVars, jpegVars, rateVars, sizeVars, pairVars,
                   lateVars>>

NextWindow == \E ms \in RunLatencies : RecordLatencyLogged(ms)

SpecWindow == InitQ /\ [][NextWindow]_vars

\* CaptureEngine.set_quality called directly, with qualities in hundredths
SetQualities ==
    {-10, 0, 20, 29, 30, 31, 50, 56, 57, 58, 85, 99, 100, 101, 113, 150, 250}

SetQuality(q) ==
    /\ set_quality(q)
    /\ UNCHANGED <<pong, lastEncode>>
    /\ UNCHANGED <<serverVars, engineVars, loopVars, frameVars, inputVars,
                   pointerVars, qualityVars, captureVars, callVars, stopVars,
                   failVars, emitVars,
                   windowVars, rateVars, sizeVars, pairVars,
                   lateVars>>

NextSetQuality == \E q \in SetQualities : SetQuality(q)

SpecSetQuality == InitQ /\ [][NextSetQuality]_vars

\* the pong handler on the event loop and the encodes of the capture
\* thread. The handler records the latency, reads get_quality() and, when
\* abs(current_quality - current_jpeg_quality / 100) > 0.05, calls
\* set_quality; _process_frame encodes with self.current_jpeg_quality
\* whenever the capture thread gets there
PongRecord(ms) ==
    /\ pong = "idle"
    /\ calls < MaxCalls
    /\ record_latency(ms)
    /\ pong' = "recorded"
    /\ UNCHANGED <<current_jpeg_quality, lastSet, lastEncode>>
    /\ UNCHANGED <<serverVars, engineVars, loopVars, frameVars, inputVars,
                   pointerVars, captureVars, callVars, stopVars, failVars,
                   emitVars, windowVars, rateVars, sizeVars, pairVars,
                   lateVars>>

PongSet ==
    /\ pong = "recorded"
    /\ IF exceeds_hysteresis(get_quality, current_jpeg_quality)
       THEN set_quality(get_quality)
       ELSE UNCHANGED <<current_jpeg_quality, lastSet>>
    /\ pong' = "idle"
    /\ UNCHANGED lastEncode
    /\ UNCHANGED <<serverVars, engineVars, loopVars, frameVars, inputVars,
                   pointerVars, qualityVars, captureVars, callVars, stopVars,
                   failVars, emitVars,
                   windowVars, rateVars, sizeVars, pairVars,
                   lateVars>>

Encode ==
    /\ lastEncode' = [done |-> TRUE, used |-> current_jpeg_quality,
                      reported |-> get_quality, after |-> pong]
    /\ UNCHANGED <<current_jpeg_quality, lastSet, pong>>
    /\ UNCHANGED <<serverVars, engineVars, loopVars, frameVars, inputVars,
                   pointerVars, qualityVars, captureVars, callVars, stopVars,
                   failVars, emitVars,
                   windowVars, rateVars, sizeVars, pairVars,
                   lateVars>>

NextEncode ==
    \/ \E ms \in Latencies : PongRecord(ms)
    \/ PongSet
    \/ Encode

SpecEncode == InitQ /\ [][NextEncode]_vars

\* the pong handler as one step of the event loop: `if sid in
\* self.latency_tracker`, record_latency, then set_quality when the
\* controller's quality is more than 0.05 away from the engine's
pong_records(sid, ms) ==
    /\ sid \in latency_tracker
    /\ calls < MaxCalls
    /\ record_latency(ms)
    /\ IF exceeds_hysteresis(current_quality', current_jpeg_quality)
       THEN set_quality(current_quality')
       ELSE UNCHANGED <<current_jpeg_quality, lastSet>>
    /\ UNCHANGED <<pong, lastEncode>>
    /\ UNCHANGED <<serverVars, engineVars, loopVars, frameVars, inputVars,
                   pointerVars, captureVars, callVars, stopVars, failVars,
                   emitVars, windowVars, rateVars, sizeVars, pairVars>>

Pong(sid, ms) == pong_records(sid, ms) /\ UNCHANGED lateVars

\* the pong handler with the sample it computes:
\* `latency_ms = (now - self.latency_tracker[sid]["last_ping"]) * 1000`;
\* the handler writes last_pong and leaves last_ping as connect set it
latency_ms(at, ping) == at - ping

PongAt(sid) ==
    LET ms == latency_ms(now, last_ping[sid])
    IN  /\ pong_records(sid, ms)
        /\ lastSample' = [sid |-> sid, at |-> now, ms |-> ms]
        /\ UNCHANGED <<last_ping, sessVars, statVars>>

\* sessions that connect and then send pongs as time passes, one period
\* after another
PongPeriods == {5}

NextProbe ==
    \/ \E sid \in Sids : Connect(sid, "ok")
    \/ \E sid \in Sids : PongAt(sid)
    \/ \E ms \in PongPeriods : Elapse(ms)

SpecProbe == Init /\ [][NextProbe]_vars

\* the sessions' events: connect, viewport, input, pong, disconnect, each
\* sent by a session that is connected
SessionLatencies == {300}

NextSession ==
    \/ \E sid \in Sids, outcome \in StartOutcomes : Connect(sid, outcome)
    \/ \E sid \in Sids : Disconnect(sid)
    \/ \E sid \in Sids, size \in MoveViewports : Viewport(sid, size)
    \/ \E sid \in Sids, e \in ServerEvents : Input(sid, e)
    \/ \E sid \in Sids, ms \in SessionLatencies : Pong(sid, ms)
    \/ LoopCheck
    \/ TickIdle(AtTick)

SpecSession == Init /\ [][NextSession]_vars

\* the input handler of the server, whole: `if sid not in
\* self.client_resolutions: return`, then process_event with the viewport
\* stored for sid; process_event begins with _rate_limit, which stamps
\* last_action_time
viewport_of_first(resolutions, sid) ==
    resolutions[CHOOSE s \in DOMAIN resolutions : TRUE]
viewport_of(resolutions, sid) == resolutions[sid]

input(sid, e) ==
    /\ sid \in connected_clients
    /\ IF sid \notin DOMAIN client_resolutions
       THEN /\ lastInput' = [sid |-> sid, event |-> e, accepted |-> FALSE,
                             viewport |-> <<0, 0>>, stamp |-> last_action_time]
            /\ UNCHANGED <<inputVars, pointerVars, rateVars, pressed_by>>
       ELSE LET client == viewport_of(client_resolutions, sid)
                stamp == rate_limit_returns(now, 0)
            IN  /\ stamp <= MaxTime
                /\ last_action_time' = stamp
                /\ stamps' = IF stamps = <<>> THEN <<stamp>>
                             ELSE <<stamps[Len(stamps)], stamp>>
                /\ dispatchAt' = stamp
                /\ now' = stamp
                /\ process_event(e, client[1], client[2])
                /\ pressed_by' = [n \in Natives |->
                                    IF held'[n] /\ ~held[n] THEN sid
                                    ELSE pressed_by[n]]
                /\ lastInput' = [sid |-> sid, event |-> e, accepted |-> TRUE,
                                 viewport |-> client, stamp |-> stamp]
    /\ UNCHANGED <<serverVars, engineVars, loopVars, frameVars, qualityVars,
                   captureVars, callVars, stopVars, failVars, emitVars,
                   jpegVars, windowVars, sizeVars, pairVars, pingVars,
                   statVars>>

\* sessions that connect, report viewports, send presses, releases and moves
\* of the mouse, and disconnect
SessionEvents ==
    [type : {"mousedown", "mouseup"}, name : {"left"}]
    \cup [type : {"move"}, x : {82}, y : {360}]

NextInputs ==
    \/ \E sid \in Sids : Connect(sid, "ok")
    \/ \E sid \in Sids : Disconnect(sid)
    \/ \E sid \in Sids, size \in MoveViewports : Viewport(sid, size)
    \/ \E sid \in Sids, e \in SessionEvents : input(sid, e)

SpecInputs == Init /\ [][NextInputs]_vars


\* ------------------------------------------------------------------ claims

\* C1: at most one capture thread executes _capture_loop at a time, in every
\* state reachable by connects, disconnects and capture-thread steps.
\* stop() does not join the thread, so a thread that has not re-read
\* self.running when the next start() sets it again keeps running beside
\* the new thread: the statement is violated.
C1_AtMostOneCaptureLoop == LiveThreads <= 1

\* C2: the connect that takes the session count from 0 to 1 calls start once
\* and no other connect calls it or touches the engine; the disconnect that
\* takes the count to 0 calls stop and release_all; so with zero sessions
\* (after one existed) running is false and release_all was the last thing
\* the InputHandler did.
C2_LifecycleState ==
    /\ lastConn.op = "connect" =>
          (lastConn.start = 1 <=> (lastConn.before = 0 /\ lastConn.after = 1))
    /\ lastConn.op = "connect" /\ lastConn.start = 0 => lastConn.before >= 1
    /\ lastConn.op = "disconnect" /\ lastConn.after = 0 =>
          lastConn.stop /\ lastConn.relall
    /\ lastConn.op = "disconnect" /\ lastConn.after > 0 =>
          ~lastConn.stop /\ ~lastConn.relall
    /\ connected_clients = {} /\ lastConn.op # "none" =>
          /\ ~running
          /\ lastConn.op = "disconnect"
          /\ lastConn.relall
          /\ last.op = "release_all"
C2_LaterConnectLeavesEngine ==
    (connected_clients # {} /\ connected_clients' # connected_clients
        /\ connected_clients \subseteq connected_clients')
    => UNCHANGED engineVars
\* C2: the session count drives start, stop and release_all (the two parts
\* above, in every state and at every step)
C2_SessionLifecycle == []C2_LifecycleState /\ [][C2_LaterConnectLeavesEngine]_vars
\* C2 witness: the last session left while a capture thread was still alive
C2_Witness ==
    /\ connected_clients = {}
    /\ lastConn.op = "disconnect"
    /\ LiveThreads > 0

\* C3: a frame whose callback found is_broadcasting set is dropped: it is not
\* submitted to the event loop, is in no queue and is not delivered.
C3_BusyFrameDropped ==
    \A f \in busyAt :
        /\ threads[AtSubmit(f)] = 0
        /\ f \notin Range(ready)
        /\ f \notin emitting
        /\ lastDelivery.frame # f
        /\ lastEmitted # f
\* C3 witness: a frame was dropped and a later frame has been emitted
C3_Witness == \E f \in busyAt : lastEmitted > f

\* C4: at most one encoded frame is scheduled or being delivered on the event
\* loop at a time. The flag is set only when a coroutine starts to run, so
\* callbacks that arrive before the loop runs the first coroutine are all
\* submitted: the statement is violated.
C4_OneFrameAtATime == Len(ready) + Cardinality(emitting) <= 1

\* C5: frames are emitted in the order they were handed to the frame
\* callback: every emit that begins is of a later frame than the emit before.
\* Two capture threads (C1) can submit their frames in the other order: the
\* statement is violated.
C5_CaptureOrder == [][lastEmitted' # lastEmitted => lastEmitted' > lastEmitted]_vars

\* C6: a delivery step emits its frame exactly once, to the sessions connected
\* at that moment, or not at all when none is connected; no frame is
\* submitted twice.
C6_EmitOnceOrNotAtAll ==
    /\ lastDelivery.frame # 0 =>
          /\ lastDelivery.clients # {} =>
                lastDelivery.emits = <<lastDelivery.clients>>
          /\ lastDelivery.clients = {} => lastDelivery.emits = <<>>
    /\ \A i, j \in 1..Len(ready) : i # j => ready[i] # ready[j]
    /\ \A i \in 1..Len(ready) : ready[i] \notin emitting
\* C6 witness: a frame was emitted and a later delivery step found no session
C6_Witness ==
    /\ lastDelivery.frame # 0
    /\ lastDelivery.clients = {}
    /\ lastEmitted # 0
    /\ lastEmitted < lastDelivery.frame

Resolvable(k) == k # "" /\ parse_key(k) # "None"

\* C7: mousedown/keydown forwards a press only when the name is recorded as
\* not pressed, mouseup/keyup forwards a release only when it is recorded as
\* pressed; so the second of two mousedowns in a row forwards no press, a
\* mouseup after a mousedown forwards one release and a second mouseup none
\* (and likewise for keys with a resolvable name).
C7_GatingState ==
    /\ last.op = "mousedown" =>
          /\ last.press = (IF last.was THEN 0 ELSE 1)
          /\ last.relB = 0 /\ last.relK = 0
          /\ Get(button_state, last.name)
    /\ last.op = "mouseup" =>
          /\ last.relB = (IF last.was THEN 1 ELSE 0)
          /\ last.press = 0 /\ last.relK = 0
          /\ ~Get(button_state, last.name)
    /\ last.op = "keydown" /\ Resolvable(last.name) =>
          /\ last.press = (IF last.was THEN 0 ELSE 1)
          /\ last.relB = 0 /\ last.relK = 0
          /\ Get(key_state, last.name)
    /\ last.op = "keyup" /\ Resolvable(last.name) =>
          /\ last.relK = (IF last.was THEN 1 ELSE 0)
          /\ last.press = 0 /\ last.relB = 0
          /\ ~Get(key_state, last.name)
C7_InARow ==
    /\ \A b \in ButtonNames :
          /\ last.op = "mousedown" /\ last.name = b /\ handle_mousedown(b)
                => last'.press = 0
          /\ last.op = "mousedown" /\ last.name = b /\ handle_mouseup(b)
                => last'.relB = 1
          /\ last.op = "mouseup" /\ last.name = b /\ handle_mouseup(b)
                => last'.relB = 0
    /\ \A k \in {x \in KeyNames : Resolvable(x)} :
          /\ last.op = "keydown" /\ last.name = k /\ handle_keydown(k)
                => last'.press = 0
          /\ last.op = "keydown" /\ last.name = k /\ handle_keyup(k)
                => last'.relK = 1
          /\ last.op = "keyup" /\ last.name = k /\ handle_keyup(k)
                => last'.relK = 0
\* C7: press/release gating per name (the two parts above, in every state
\* and at every step)
C7_PressReleaseGating == []C7_GatingState /\ [][C7_InARow]_vars
\* C7 witness: a second mouseup forwarded nothing while a key is pressed
C7_Witness ==
    /\ last.op = "mouseup"
    /\ ~last.was
    /\ last.relB = 0
    /\ \E k \in DOMAIN key_state : key_state[k]

\* C8: at the injection sink a press is never forwarded for a native button
\* or key that is already held, and a release only for one that is held.
\* The state is keyed by the name the client sent, so two names of one
\* native key ('Enter' and 'enter', 'foo' and 'left') press it twice: the
\* statement is violated.
C8_NoDuplicateNoGhost == ~last.dup /\ ~last.ghost

\* C9: release_all forwards one release per button and per key recorded as
\* pressed and none for the others, leaves every entry not pressed, and a
\* second release_all forwards nothing.
C9_ReleaseAllState ==
    last.op = "release_all" =>
        /\ last.relB = last.nB
        /\ last.relK = last.nK
        /\ last.press = 0
        /\ \A b \in DOMAIN button_state : ~button_state[b]
        /\ \A k \in DOMAIN key_state : ~key_state[k]
C9_SecondReleasesNothing ==
    (last.op = "release_all" /\ release_all) =>
        last'.relB = 0 /\ last'.relK = 0
\* C9: release_all forwards N and M releases and a second one nothing (the
\* two parts above, in every state and at every step)
C9_ReleaseAll == []C9_ReleaseAllState /\ [][C9_SecondReleasesNothing]_vars
\* C9 witness: release_all ran with 2 buttons and 3 keys recorded as pressed
C9_Witness ==
    /\ last.op = "release_all"
    /\ last.nB = 2
    /\ last.nK = 3

\* C10: for every base quality Config.from_args accepts and every sequence
\* of record_latency calls, get_quality() lies in [min_quality, max_quality].
\* The base quality is never clamped into that range, so a base below 0.4 is
\* returned as it is: the statement is violated.
C10_QualityInRange == min_quality <= get_quality /\ get_quality <= max_quality


\* C11: the controller does nothing until the window holds 3 samples: with
\* fewer than 3 samples recorded on a fresh controller get_quality() is the
\* base quality, and a record_latency call changes the quality only if the
\* window holds at least 3 samples after it.
C11_FreshHolds == Len(latency_samples) < 3 => get_quality = base_quality
C11_ChangeNeedsThree ==
    [][current_quality' # current_quality => Len(latency_samples') >= 3]_vars
C12_SingleHighSampleLowers ==
    (calls = 1 /\ latency_samples[1] > high_latency_threshold)
        => get_quality < base_quality

\* C13: control law with hysteresis. After every record_latency call that
\* leaves at least 3 samples, with m the mean of the window, the target is
\* min(base + 0.1, max) if m < 50, max(base - 0.2, min) if m > 200 and base
\* otherwise (a mean of exactly 50 or 200 selects base); the new quality is
\* the target if |target - previous| > 0.05 and the previous quality
\* otherwise. The comparison is the one of the doubles the controller holds.
C13_Target ==
    LET n == Len(latency_samples')
        total == Sum(latency_samples')
    IN  IF total < 50 * n THEN Min(base_quality + 10, 100)
        ELSE IF total > 200 * n THEN Max(base_quality - 20, 40)
        ELSE base_quality
C14_LowLatencyRaises ==
    [][(/\ calls' # calls
        /\ Len(latency_samples') >= 3
        /\ Sum(latency_samples') < 50 * Len(latency_samples')
        /\ current_quality < base_quality)
        => (current_quality' > current_quality /\ current_quality' <= 100)]_vars
C14_Witness ==
    /\ Len(latency_samples) >= 3
    /\ Sum(latency_samples) < 50 * Len(latency_samples)
    /\ previous_quality < base_quality
    /\ get_quality > previous_quality

\* C15 as stated: whenever a record_latency call leaves at least 3 samples
\* whose mean is above 200 ms, the quality after the call is strictly less
\* than before it and not below 0.4. A controller already at its lowered
\* quality stays there on the next such call: the statement is violated.
C15_HighLatencyLowers ==
    [][(/\ calls' # calls
        /\ Len(latency_samples') >= 3
        /\ Sum(latency_samples') > 200 * Len(latency_samples'))
        => (current_quality' < current_quality /\ current_quality' >= 40)]_vars

\* C15 amended: whenever a record_latency call leaves at least 3 samples
\* whose mean is above 200 ms and the quality before the call is more than
\* 0.05 above max(base - 0.2, 0.4), the quality after the call is
\* max(base - 0.2, 0.4): strictly less than before and not below 0.4.
C15_Floor == Max(base_quality - 20, 40)
C15_HighLatencyLowersToFloor ==
    [][(/\ calls' # calls
        /\ Len(latency_samples') >= 3
        /\ Sum(latency_samples') > 200 * Len(latency_samples')
        /\ current_quality - C15_Floor > 5)
        => (/\ current_quality' = C15_Floor
            /\ current_quality' < current_quality
            /\ current_quality' >= 40)]_vars
C15_Witness ==
    /\ Len(latency_samples) >= 3
    /\ Sum(latency_samples) > 200 * Len(latency_samples)
    /\ previous_quality = 85
    /\ get_quality = 65

\* C16: clamping invariant. For every desktop size with width and height at
\* least 1, every viewport with positive width and height and every touch
\* coordinate, inside the viewport or outside it (negative or larger),
\* _transform_coordinates returns (px, py) with 0 <= px <= desktopW - 1 and
\* 0 <= py <= desktopH - 1.
C16_ClampedPosition ==
    [][moved' # moved =>
        /\ 0 <= position'[1] /\ position'[1] <= desktop_size[1] - 1
        /\ 0 <= position'[2] /\ position'[2] <= desktop_size[2] - 1]_vars
C16_Witness ==
    /\ moved = [x |-> 1500, y |-> -5, cw |-> 1280, ch |-> 720]
    /\ desktop_size = <<1920, 1080>>
    /\ position = <<1919, 0>>

\* C17 as stated: a move at (x, y) with viewport (cw, ch) and desktop
\* (dw, dh) puts the pointer at (clamp(trunc(x*dw/cw), 0, dw-1),
\* clamp(trunc(y*dh/ch), 0, dh-1)). The code divides before it multiplies,
\* in doubles: 82 / 1280 * 1920 truncates to 122 where trunc(82*1920/1280)
\* is 123, so the statement is violated.
C17_LinearMapping ==
    [][moved' # moved =>
        position' =
          <<Max(0, Min(trunc_div(moved'.x * desktop_size[1], moved'.cw),
                       desktop_size[1] - 1)),
            Max(0, Min(trunc_div(moved'.y * desktop_size[2], moved'.ch),
                       desktop_size[2] - 1))>>]_vars

\* C17 amended: each coordinate of the pointer is clamp(trunc(v*d/c), 0, d-1)
\* or, only when v*d/c is an integer, the clamp of one less; the viewport
\* centre maps to within 1 unit of the desktop centre, the far corner
\* (cw, ch) to (dw-1, dh-1), and (640, 360) of 1280x720 on 1920x1080 to
\* (960, 540).
C17_AxisWithinRounding(pc, v, client, desktop) ==
    LET q == trunc_div(v * desktop, client)
    IN  \/ pc = Max(0, Min(q, desktop - 1))
        \/ (v * desktop) % client = 0 /\ pc = Max(0, Min(q - 1, desktop - 1))
C17_MappingWithinRounding ==
    [][moved' # moved =>
        LET m == moved'
            dw == desktop_size[1]
            dh == desktop_size[2]
            px == position'[1]
            py == position'[2]
        IN  /\ C17_AxisWithinRounding(px, m.x, m.cw, dw)
            /\ C17_AxisWithinRounding(py, m.y, m.ch, dh)
            /\ (2 * m.x = m.cw /\ 2 * m.y = m.ch)
                  => (Abs(2 * px - dw) <= 2 /\ Abs(2 * py - dh) <= 2)
            /\ (m.x = m.cw /\ m.y = m.ch) => (px = dw - 1 /\ py = dh - 1)
            /\ (m = [x |-> 640, y |-> 360, cw |-> 1280, ch |-> 720]
                  /\ desktop_size = <<1920, 1080>>)
                  => (px = 960 /\ py = 540)]_vars
C17_Witness ==
    /\ moved = [x |-> 82, y |-> 360, cw |-> 1280, ch |-> 720]
    /\ desktop_size = <<1920, 1080>>
    /\ position = <<122, 540>>

\* C18: skip cap. With change detection enabled and a baseline present, in
\* a run of consecutively pulled frames classified identical to the
\* baseline at most 1 in every 5 is emitted (an identical frame is emitted
\* only after 4 skipped ones), the 5th consecutive identical frame is
\* emitted (never more than 4 consecutive non-empty frames are skipped),
\* and the skip counter then restarts from 0. Emitted means not skipped:
\* the frame goes on to the encoder and the callback.
C18_AtMostFourSkipped == skipped_run <= 4
C18_IdenticalTick == captureVars' # captureVars /\ lastTick'.identical
C18_OneInFive ==
    (C18_IdenticalTick /\ lastTick'.passed) => skipped_run = 4
C18_FifthEmitted ==
    (C18_IdenticalTick /\ skipped_run = 4)
        => (lastTick'.passed /\ consecutive_identical' = 0)
C18_SkipCap ==
    []C18_AtMostFourSkipped /\ [][C18_OneInFive /\ C18_FifthEmitted]_vars
C18_Witness ==
    /\ lastTick = [pulled |-> TRUE, identical |-> TRUE, passed |-> TRUE,
                   sent |-> TRUE]
    /\ consecutive_identical = 0
    /\ last_frame = [shape |-> "1080p", px |-> 5]

\* C19: start/stop idempotence. A start() that finds the engine running
\* changes nothing (no thread, no camera, the callback stays), a stop() that
\* finds it stopped changes nothing, and racing start() calls create exactly
\* one capture thread. A start() whose camera.start() raised leaves
\* self.camera assigned with running false, and a stop() on that stopped
\* engine releases the camera: the statement is violated.
C19_OneThreadCreated == created <= 1 /\ (running => created = 1)
C19_StartWhileRunning ==
    \A c \in Callers :
        (caller[c] = "start_locked" /\ running /\ caller'[c] # caller[c])
            => UNCHANGED <<engineVars, created, callback_owner>>
C19_StopWhileStopped ==
    \A c \in Callers :
        (caller[c] = "stop_locked" /\ ~running /\ caller'[c] = "idle")
            => UNCHANGED engineVars
C19_Idempotence ==
    /\ []C19_OneThreadCreated
    /\ [][C19_StartWhileRunning /\ C19_StopWhileStopped]_vars

\* C20: stop() halts frame production. After stop() has returned and while
\* no later start() is called, the frame callback is invoked at most once
\* more per iteration that was in flight, a thread that reaches the loop
\* test leaves the loop, and under fair scheduling no capture thread
\* remains.
C20_AtMostOnceMore ==
    stopped => (nextFrame - framesAtStop) + in_flight(threads) <= inFlightAtStop
C20_ExitsAtLoopCheck ==
    (stopped /\ threads'[AtLoop] < threads[AtLoop])
        => LiveThreads' = LiveThreads - 1
C20_Terminates == stopped ~> (LiveThreads = 0 \/ ~stopped)
C20_StopHalts ==
    /\ []C20_AtMostOnceMore
    /\ [][C20_ExitsAtLoopCheck]_vars
    /\ C20_Terminates
C20_Witness ==
    /\ stopped
    /\ inFlightAtStop = 1
    /\ nextFrame = framesAtStop + 1
    /\ LiveThreads = 0

\* C21: a failure in one iteration (the pull raising, the encoding failing or
\* the frame callback raising) never ends the capture loop: the iteration
\* emits nothing, the thread sleeps a bounded backoff and is back at the loop
\* test, and a thread leaves the loop only when running is false
C21_Failed == failures' = failures + 1
C21_KeepsThread ==
    [][C21_Failed => /\ LiveThreads' = LiveThreads
                     /\ threads'[AtLoop] = threads[AtLoop] + 1]_vars
C21_EmitsNothing ==
    [][C21_Failed => ready' = ready /\ nextFrame' = nextFrame]_vars
C21_SleepsBackoff == [][C21_Failed => lastFail'.slept]_vars
C21_ExitsOnlyStopped == [][LiveThreads' < LiveThreads => ~running]_vars
C21_FailureNeverEndsLoop ==
    /\ C21_KeepsThread
    /\ C21_EmitsNothing
    /\ C21_SleepsBackoff
    /\ C21_ExitsOnlyStopped

\* C22: when creating or starting the capture source raises, start() hands
\* the exception to its caller, creates no capture thread, leaves running
\* false and releases the lock, and the next start() that takes the lock
\* initialises again
C22_InitEnds(c, result) ==
    /\ caller[c] = "start_init"
    /\ caller'[c] = "idle"
    /\ start_result'[c] = result
C22_FailureIsFatal ==
    [][\A c \in Callers :
          /\ C22_InitEnds(c, "raised") => /\ threads' = threads
                                          /\ created' = created
                                          /\ ~running'
                                          /\ lock' = "free"
          /\ C22_InitEnds(c, "returned") => /\ running'
                                            /\ created' = created + 1
                                            /\ lock' = "free"]_vars
C22_LaterStartInitialises ==
    [][\A c \in Callers :
          (/\ caller[c] = "start_locked"
           /\ \E other \in Callers : start_result[other] = "raised"
           /\ ~running
           /\ caller'[c] # caller[c]) => caller'[c] = "start_init"]_vars
C22_StartFailure == C22_FailureIsFatal /\ C22_LaterStartInitialises
C22_Witness ==
    \E c, other \in Callers :
        /\ start_result[other] = "raised"
        /\ caller[c] = "start_init"
        /\ lock = c
        /\ ~running

\* C23: an emit that raises is caught inside _broadcast_frame and does not
\* propagate; after it the is_broadcasting flag is false again, so the next
\* frame handed to the callback is accepted and delivered to the sessions
C23_EmitRaised == emit_failed' # emit_failed
C23_Caught == propagated = {}
C23_FlagCleared == [][C23_EmitRaised => ~is_broadcasting']_vars
C23_NextAccepted ==
    [][\A f \in 1..MaxFrames :
          (/\ emit_failed # {}
           /\ ~is_broadcasting
           /\ threads[AtCallback(f)] > 0
           /\ threads'[AtCallback(f)] < threads[AtCallback(f)])
          => threads'[AtSubmit(f)] = threads[AtSubmit(f)] + 1]_vars
C23_NextDelivered ==
    [][(/\ emit_failed # {}
        /\ ready # <<>>
        /\ ready' = Tail(ready)
        /\ connected_clients # {})
       => /\ lastDelivery'.frame = Head(ready)
          /\ lastDelivery'.emits = <<connected_clients>>]_vars
C23_DeliveryFailure ==
    /\ []C23_Caught
    /\ C23_FlagCleared
    /\ C23_NextAccepted
    /\ C23_NextDelivered
C23_Witness ==
    /\ emit_failed # {}
    /\ lastDelivery.frame > failedAt
    /\ lastDelivery.emits # <<>>
    /\ ~is_broadcasting

\* C24: a keydown or keyup whose key is empty, or is neither a name of the
\* symbolic key table nor a single character, forwards nothing to the
\* injection sink and leaves key_state and button_state as they were
C24_Unresolvable(key) ==
    \/ key = ""
    \/ key_lower(key) \notin DOMAIN special_keys /\ key \notin SingleChars
C24_SilentDrop ==
    [][(last'.op \in {"keydown", "keyup"} /\ C24_Unresolvable(last'.name))
       => /\ held' = held
          /\ key_state' = key_state
          /\ button_state' = button_state
          /\ last'.press = 0 /\ last'.relK = 0 /\ last'.relB = 0]_vars
C24_Witness ==
    /\ last.op = "keyup"
    /\ last.name = "F13"
    /\ \E n \in Natives : held[n]
    /\ \E k \in DOMAIN key_state : key_state[k]

\* C25: set_quality(q) sets the JPEG quality to trunc(100*q) clamped into
\* [30, 100] for every q (0.5 gives 50, 1.5 gives 100, 0.2 gives 30), so
\* after any set_quality call current_jpeg_quality lies in 30..100
C25_Clamped(q) == Max(30, Min(100, q))
C25_TruncClamped ==
    lastSet.called => current_jpeg_quality = C25_Clamped(lastSet.q)
C25_Examples ==
    /\ (lastSet.called /\ lastSet.q = 50) => current_jpeg_quality = 50
    /\ (lastSet.called /\ lastSet.q = 150) => current_jpeg_quality = 100
    /\ (lastSet.called /\ lastSet.q = 20) => current_jpeg_quality = 30
C25_TruncWithinRounding ==
    /\ lastSet.called =>
          /\ current_jpeg_quality \in 30..100
          /\ current_jpeg_quality \in {C25_Clamped(lastSet.q),
                                       C25_Clamped(lastSet.q - 1)}
    /\ C25_Examples
C25_Witness ==
    /\ lastSet.called
    /\ lastSet.q = 20
    /\ current_jpeg_quality = 30
    /\ base_quality = 10

\* C26: every frame is encoded at the quality the QualityController reports
\* at the moment of that encode (times 100), for every interleaving of the
\* pong handler with the capture thread and every accepted base quality
C26_EncodeTracksController ==
    lastEncode.done => lastEncode.used = lastEncode.reported

\* C27: the latency window is a ring of capacity 10: after n record_latency
\* calls it holds exactly the last min(n, 10) samples in insertion order,
\* and its length never exceeds 10
C27_LastSamples(log, n) == SubSeq(log, Len(log) - n + 1, Len(log))
C27_RingWindow ==
    /\ Len(latency_samples) <= 10
    /\ Len(fed) = calls
    /\ latency_samples = C27_LastSamples(fed, Min(calls, 10))
C27_Witness ==
    /\ calls = 11
    /\ fed[1] = 2100
    /\ latency_samples = [i \in 1..10 |-> 1]

\* C28: for any two input events processed one after the other, of any
\* types, the dispatch of the second begins at least min_action_interval
\* (5 ms) after the rate-limit stamp of the first, and the limiter has run
\* (and stamped) before the event is dispatched
C28_GlobalRateLimit ==
    /\ stamps # <<>> => /\ dispatchAt >= stamps[Len(stamps)]
                        /\ last_action_time = stamps[Len(stamps)]
    /\ Len(stamps) = 2 => dispatchAt >= stamps[1] + min_action_interval
C28_Witness ==
    /\ Len(stamps) = 2
    /\ dispatchAt = stamps[1] + min_action_interval
    /\ last = NoOp

C29_Sessions == Cardinality(connected_clients)
C29_FirstOfAGroupSets ==
    [][(C29_Sessions = 0 /\ C29_Sessions' = 1)
       => /\ size_sets' = size_sets + 1
          /\ size_set_by' \in connected_clients']_vars
C29_OthersLeaveIt ==
    [][~(C29_Sessions = 0 /\ C29_Sessions' = 1)
       => /\ size_sets' = size_sets
          /\ desktop_size' = desktop_size]_vars
C30_Done == reader = "idle" /\ Len(reads) = 4
C30_Whole(pair) ==
    /\ reads = <<pair[1], pair[2], pair[1], pair[2]>>
    /\ position = <<clamp(double_scale(moved.x, moved.cw, pair[1]), pair[1]),
                    clamp(double_scale(moved.y, moved.ch, pair[2]), pair[2])>>
C30_Returns == reader = "read" /\ reader' = "idle"
C30_PairConsistency ==
    [][C30_Returns => (C30_Whole(size_before) \/ C30_Whole(pending))']_vars
C30_Witness ==
    /\ C30_Done
    /\ writer = "wait"
    /\ pending = <<2560, 1440>>
    /\ size_before = <<1, 1>>
    /\ C30_Whole(size_before)
    /\ moved.x = 1500

\* C31: session records are created on connect and destroyed on disconnect:
\* when only connected sessions send events, the keys of latency_tracker are
\* those of connected_clients, the keys of client_resolutions are among
\* them, and after a session's disconnect its id is in none of the three
C31_KeySets ==
    /\ latency_tracker = connected_clients
    /\ DOMAIN client_resolutions \subseteq connected_clients
C31_DisconnectDestroys ==
    [][\A sid \in Sids :
          (sid \in connected_clients /\ sid \notin connected_clients')
          => /\ sid \notin latency_tracker'
             /\ sid \notin DOMAIN client_resolutions']_vars
C31_SessionRecords == []C31_KeySets /\ C31_DisconnectDestroys
C31_Witness ==
    /\ lastConn.op = "disconnect"
    /\ connected_clients = {"s2"}
    /\ DOMAIN client_resolutions = {"s2"}
    /\ calls > 0
    /\ \E n \in Natives : held[n]

\* C32: is_broadcasting is true exactly when some _broadcast_frame delivery
\* is between setting the flag and its finally block; in particular the flag
\* is never false while an emit is in progress
C32_FlagReflectsDelivery == is_broadcasting <=> emitting # {}

\* C33: whenever a connect or disconnect handler has finished, the capture
\* engine's running flag is true exactly when at least one session is
\* recorded in connected_clients, also after a connect whose start() raised
\* and for the sessions that connect after such a failure
C33_RunningIffSessions == running <=> connected_clients # {}

\* C34: after any sequence of input events and release_all calls the
\* InputHandler records a button or key as pressed if and only if the
\* native button or key is held down at the injection sink, also when a
\* click or keypress arrives while the name is recorded as pressed
C34_RouterMirrorsSink ==
    /\ \A b \in DOMAIN button_state : button_state[b] <=> held[get_button(b)]
    /\ \A k \in DOMAIN key_state : key_state[k] <=> held[parse_key(k)]


\* C35: no stuck input from a torn-down session: when a session disconnects
\* while another session remains connected, every button and key that the
\* departing session pressed and had not released is released at the
\* injection sink when its disconnect handler has finished
C35_Departing == connected_clients \ connected_clients'

C35_NoStuckInput ==
    [][(lastConn' # lastConn /\ lastConn'.op = "disconnect"
            /\ lastConn'.after >= 1)
        => \A n \in Natives : pressed_by[n] \in C35_Departing => ~held'[n]]_vars


\* C37: input from a session that has not reported a viewport is ignored: it
\* causes no call into the InputRouter, no injection, no change to
\* button_state or key_state and no rate-limit stamp; a move of a session
\* that has reported a viewport is mapped with that session's own latest
\* viewport, not another session's
C37_InputHandled == lastInput' # lastInput

C37_NoViewport == lastInput'.sid \notin DOMAIN client_resolutions

C37_Ignored ==
    /\ ~lastInput'.accepted
    /\ UNCHANGED <<held, button_state, key_state, last, position, moved>>
    /\ UNCHANGED <<last_action_time, stamps>>

C37_MappedWithOwn ==
    LET e == lastInput'.event
        own == client_resolutions[lastInput'.sid]
    IN  e.type = "move" =>
            /\ position' = transform_coordinates(e.x, e.y, own[1], own[2])
            /\ moved'.cw = own[1] /\ moved'.ch = own[2]

C37_ViewportGatesInput ==
    [][C37_InputHandled =>
        IF C37_NoViewport THEN C37_Ignored
        ELSE lastInput'.accepted /\ C37_MappedWithOwn]_vars

C37_Witness ==
    /\ lastInput.sid \in connected_clients \ DOMAIN client_resolutions
    /\ lastInput.event.type = "move"
    /\ ~lastInput.accepted
    /\ \E s \in DOMAIN client_resolutions :
        /\ moved.cw = client_resolutions[s][1]
        /\ position = transform_coordinates(moved.x, moved.y,
                                            client_resolutions[s][1],
                                            client_resolutions[s][2])


\* C36: latency samples measure a round trip, not session age: last_ping is
\* refreshed between successive pongs, so the sample recorded for a pong is
\* the time since the session's latest probe, at most the time since its
\* previous pong, and the samples of a session whose pongs arrive at a
\* steady period do not grow
C36_NextPong ==
    /\ lastSample' # lastSample
    /\ lastSample'.sid = lastSample.sid

C36_SinceLatestProbe == lastSample'.ms <= lastSample'.at - lastSample.at

C36_SamplesAreRoundTrips ==
    [][C36_NextPong => C36_SinceLatestProbe /\ lastSample'.ms <= lastSample.ms]_vars


\* C38: capture statistics are consistent: in every reachable state of a
\* single capture loop frames_sent + frames_skipped <= frames_captured (each
\* pulled frame is counted as captured once and then as at most one of
\* skipped or sent), and the three counters never decrease
C38_CountedOnce == frames_sent + frames_skipped <= frames_captured

C38_NonDecreasing ==
    /\ frames_captured' >= frames_captured
    /\ frames_sent' >= frames_sent
    /\ frames_skipped' >= frames_skipped

C38_StatsConsistent == []C38_CountedOnce /\ [][C38_NonDecreasing]_vars

=============================================================================
